---- MODULE Spec2Model ----
(***************************************************************************)
(* Knowledge graph MCP server: the storage operations (knowledge/storage), *)
(* the query builder (utils/cypher-builder), the extractor                 *)
(* (extractors/mcp-extractor), the retrieval operations                    *)
(* (knowledge/retrieval) and the schema setup, run by concurrent callers   *)
(* against one graph store.                                                *)
(*                                                                         *)
(* Every `await` of the code is one step of the caller: the step is the    *)
(* store's answer to the awaited call (session.run, session.close)         *)
(* together with the synchronous code that follows it up to the next       *)
(* await.  A Cypher statement is executed atomically by the store.         *)
(* Confidences are kept in hundredths (0.8 is 80).                         *)
(***************************************************************************)
EXTENDS Bags, FiniteSets, Integers, Sequences, TLC

\* ----------------------------------------------------------------- bounds
MaxCalls == 2          \* top-level calls started in one behaviour
MaxFailures == 1       \* store failures injected in one behaviour
MaxClock == 1          \* largest value of Date.now()

Procs == {"p1", "p2"}  \* concurrent callers of the core
SlotNo(p) == IF p = "p1" THEN 1 ELSE 2

\* ------------------------------------------------------- values of the code
Undef == "undefined"   \* an argument or property that is absent (undefined / null)
NoConf == 0 - 1        \* an absent confidence (undefined, or NaN after arithmetic)
DEFAULT_CONFIDENCE == 80

Falsy(s) == s = Undef \/ s = ""

\* randomUUID(): the n-th identifier the store hands out
UUID(n) == "00000000-0000-4000-8000-0000000000"
           \o (IF n < 10 THEN "0" \o ToString(n) ELSE ToString(n))

\* String.prototype.includes / Cypher CONTAINS
Includes(s, t) ==
    \E i \in 1..(Len(s) - Len(t) + 1) : SubSeq(s, i, i + Len(t) - 1) = t

\* ------------------------------------------------------------- characters
UpperChars == "ABCDEFGHIJKLMNOPQRSTUVWXYZ"
LowerChars == "abcdefghijklmnopqrstuvwxyz"
DigitChars == "0123456789"

Ch(s, i) == SubSeq(s, i, i)
IndexIn(c, str) ==
    IF \E i \in 1..Len(str) : Ch(str, i) = c
    THEN CHOOSE i \in 1..Len(str) : Ch(str, i) = c
    ELSE 0

IsUpper(c) == IndexIn(c, UpperChars) # 0
IsLetter(c) == IsUpper(c) \/ IndexIn(c, LowerChars) # 0
IsWordChar(c) == IsLetter(c) \/ IndexIn(c, DigitChars) # 0 \/ c = "_"
IsSpace(c) == c \in {" ", "\t", "\n", "\r"}

LowerCh(c) == LET k == IndexIn(c, UpperChars)
              IN IF k = 0 THEN c ELSE Ch(LowerChars, k)
UpperCh(c) == LET k == IndexIn(c, LowerChars)
              IN IF k = 0 THEN c ELSE Ch(UpperChars, k)

\* String.prototype.toLowerCase
RECURSIVE toLowerCase(_)
toLowerCase(s) ==
    IF Len(s) = 0 THEN ""
    ELSE IF Len(s) = 1 THEN LowerCh(s)
    ELSE LET h == Len(s) \div 2
         IN toLowerCase(SubSeq(s, 1, h)) \o toLowerCase(SubSeq(s, h + 1, Len(s)))

\* s.charAt(0).toUpperCase() + s.slice(1)
Capitalize(s) == IF s = "" THEN "" ELSE UpperCh(Ch(s, 1)) \o SubSeq(s, 2, Len(s))

Min(a, b) == IF a < b THEN a ELSE b
Max(a, b) == IF a > b THEN a ELSE b

\* ------------------------------------------------------------------ state
VARIABLES
    nodes,          \* the graph's nodes, in creation order
    edges,          \* the graph's relationships: a bag of <<source id, type, target id>>
    schema,         \* constraints and indexes created so far
    clock,          \* the last value Date.now() returned
    openSessions,   \* sessions acquired from the driver and not yet closed
    stack,          \* per caller: the frames of the calls in progress, innermost last
    outcome,        \* per caller: how its last top-level call ended
    calls,          \* top-level calls started
    failures,       \* store failures injected
    hist,           \* per Concept name: upserts executed and the largest confidence asked
    lastUpsert,     \* the last concept upsert the store executed
    relMerges,      \* bag of <<source id, type, target id>>: relationship merges executed
    issued,         \* the statements handed to session.run so far
    transports,     \* SSE server: the transport registered per session id
    connections,    \* SSE server: the /events connections accepted, in order
    reply           \* SSE server: how the last /message post was answered

vars == <<nodes, edges, schema, clock, openSessions, stack, outcome, calls,
          failures, hist, lastUpsert, relMerges, issued,
          transports, connections, reply>>

store == <<nodes, edges, schema>>
ghost == <<hist, lastUpsert, relMerges>>
web == <<transports, connections, reply>>

\* ------------------------------------------------------------- the graph
NodeIdx == 1..Len(nodes)

NewNode(ns, labels) ==
    [id |-> UUID(Len(ns) + 1), labels |-> labels, name |-> Undef,
     statement |-> Undef, content |-> Undef, url |-> Undef, title |-> Undef,
     description |-> Undef, source |-> Undef, sourceType |-> Undef,
     confidence |-> NoConf]

HasLabel(n, l) == l \in n.labels

\* positions of the nodes with label l whose property `key` equals v
Matching(ns, l, key, v) ==
    {i \in 1..Len(ns) : HasLabel(ns[i], l) /\ ns[i][key] = v}

\* positions of the nodes (of any label) with that id
ById(ns, id) == {i \in 1..Len(ns) : ns[i].id = id}

\* a set of positions as the ascending sequence of the records returned
RECURSIVE Ascending(_)
Ascending(S) ==
    IF S = {} THEN <<>>
    ELSE LET m == CHOOSE x \in S : \A y \in S : x <= y
         IN <<m>> \o Ascending(S \ {m})

\* ------------------------------------------------- relationships (MERGE)
\* CREATE (a)-[r:type]->(b): a relationship is added whatever the graph holds
EdgeCreate(es, e) == es (+) SetToBag({e})
\* MERGE (a)-[r:type]->(b): the relationship is created only when none matches
EdgeMerge(es, e) == IF BagIn(e, es) THEN es ELSE es (+) SetToBag({e})

RECURSIVE MergeAll(_, _)
MergeAll(es, T) ==
    IF T = {} THEN es
    ELSE LET e == CHOOSE x \in T : TRUE
         IN MergeAll(EdgeMerge(es, e), T \ {e})

\* ------------------------------------------- utils/cypher-builder.js
\* the bound parameters of the concept upsert
createConceptQuery(params) ==
    [name |-> params.name,
     description |-> IF Falsy(params.description) THEN params.name
                     ELSE params.description,
     source |-> params.source,
     confidence |-> IF params.confidence = NoConf \/ params.confidence = 0
                    THEN DEFAULT_CONFIDENCE ELSE params.confidence]

\* a pattern that matches no node: the upsert as a plain CREATE
ConceptMatchNone(ns, name) == {}
\* MERGE (c:Concept {name: $name}): the nodes the pattern matches
ConceptMatch(ns, name) == Matching(ns, "Concept", "name", name)

\* ON MATCH SET c.description = CASE WHEN ... END
OnMatchDescription(old, new) == IF new # Undef /\ new # "" THEN new ELSE old
\* ON MATCH SET c.confidence = CASE WHEN $confidence > c.confidence ... END
OnMatchConfidence(old, new) == IF new > old THEN new ELSE old

\* the store executing the concept upsert with parameters q
RunConceptQuery(ns, q) ==
    LET m == ConceptMatch(ns, q.name) IN
    IF m = {}
    THEN LET n == [NewNode(ns, {"Concept"}) EXCEPT
                     !.name = q.name, !.description = q.description,
                     !.source = q.source, !.confidence = q.confidence]
         IN [nodes |-> Append(ns, n),
             records |-> <<[id |-> n.id, name |-> n.name]>>]
    ELSE LET ns2 == [i \in 1..Len(ns) |->
                       IF i \in m
                       THEN [ns[i] EXCEPT
                               !.description = OnMatchDescription(@, q.description),
                               !.confidence = OnMatchConfidence(@, q.confidence)]
                       ELSE ns[i]]
             asc == Ascending(m)
         IN [nodes |-> ns2,
             records |-> [k \in 1..Len(asc) |->
                            [id |-> ns2[asc[k]].id, name |-> ns2[asc[k]].name]]]

\* the bound parameters of the fact creation
createFactQuery(params) ==
    [statement |-> params.statement,
     source |-> params.source,
     confidence |-> IF params.confidence = NoConf \/ params.confidence = 0
                    THEN DEFAULT_CONFIDENCE ELSE params.confidence,
     factType |-> params.factType]

\* CREATE (f:Fact {...}): never merged
RunFactQuery(ns, q) ==
    LET n == [NewNode(ns, {"Fact"}) EXCEPT
                !.statement = q.statement, !.source = q.source,
                !.confidence = q.confidence]
    IN [nodes |-> Append(ns, n),
        records |-> <<[id |-> n.id, statement |-> n.statement]>>]

createFactConceptRelationQuery(params) ==
    [factId |-> params.factId, conceptId |-> params.conceptId,
     relationshipType |-> IF params.relationshipType = Undef THEN "ABOUT"
                          ELSE params.relationshipType]

\* MATCH (f:Fact {id}) MATCH (c:Concept {id}) MERGE (f)-[r:type]->(c)
RunFactConceptRelationQuery(ns, es, q) ==
    LET T == {<<ns[i].id, q.relationshipType, ns[j].id>> :
                i \in Matching(ns, "Fact", "id", q.factId),
                j \in Matching(ns, "Concept", "id", q.conceptId)}
    IN [edges |-> MergeAll(es, T), merged |-> T]

\* ------------------------------------- statements of knowledge/storage.js
\* MATCH (x:<label> {id}) MERGE (d:Domain {name}) ON CREATE ... MERGE (x)-[:BELONGS_TO]->(d)
RunDomainQuery(ns, es, label, id, domain) ==
    LET xs == Matching(ns, label, "id", id)
        ds == Matching(ns, "Domain", "name", domain)
        ns2 == IF xs = {} \/ ds # {} THEN ns
               ELSE Append(ns, [NewNode(ns, {"Domain"}) EXCEPT !.name = domain])
        T == {<<ns2[i].id, "BELONGS_TO", ns2[j].id>> :
                i \in xs, j \in Matching(ns2, "Domain", "name", domain)}
    IN [nodes |-> ns2, edges |-> MergeAll(es, T), merged |-> T]

\* MATCH (a:Concept {id}) MATCH (b) WHERE id(b) = $targetId OR b.id = $targetId
\* MERGE (a)-[r:type]->(b)
RunConceptRelQuery(ns, es, conceptId, rel) ==
    LET T == {<<ns[i].id, rel.type, ns[j].id>> :
                i \in Matching(ns, "Concept", "id", conceptId),
                j \in ById(ns, rel.targetId)}
    IN [edges |-> MergeAll(es, T), merged |-> T]

\* MATCH (source) WHERE source.id = $sourceId MATCH (target) WHERE target.id = $targetId
\* MERGE (source)-[r:type]->(target) RETURN ...
RunRelationshipQuery(ns, es, q) ==
    LET T == {<<ns[i].id, q.type, ns[j].id>> :
                i \in ById(ns, q.sourceId), j \in ById(ns, q.targetId)}
    IN [edges |-> MergeAll(es, T), merged |-> T,
        records |-> [k \in 1..Cardinality(T) |->
                       [relationship |-> q.type, sourceId |-> q.sourceId,
                        targetId |-> q.targetId]]]

\* MERGE (s:Source {url: $url}) ON CREATE SET ... ON MATCH SET ...
RunSourceQuery(ns, q) ==
    LET m == Matching(ns, "Source", "url", q.url) IN
    IF m = {}
    THEN LET n == [NewNode(ns, {"Source"}) EXCEPT
                     !.url = q.url, !.title = q.title,
                     !.sourceType = q.sourceType]
         IN [nodes |-> Append(ns, n), created |-> TRUE,
             records |-> <<[id |-> n.id, title |-> n.title]>>]
    ELSE LET ns2 == [i \in 1..Len(ns) |->
                       IF i \in m
                       THEN [ns[i] EXCEPT
                               !.title = IF q.title # Undef THEN q.title ELSE @]
                       ELSE ns[i]]
             asc == Ascending(m)
         IN [nodes |-> ns2, created |-> FALSE,
             records |-> [k \in 1..Len(asc) |->
                            [id |-> ns2[asc[k]].id, title |-> ns2[asc[k]].title]]]


\* ------------------------------------------------------ calls and results
None == [kind |-> "none"]
Thrown(msg) == [kind |-> "throw", error |-> msg]
Failure(msg) == [kind |-> "value", success |-> FALSE, error |-> msg]

Top(p) == stack[p][Len(stack[p])]
Pop(s) == SubSeq(s, 1, Len(s) - 1)
SetTop(s, f) == [s EXCEPT ![Len(s)] = f]

At(p, op, pc) == stack[p] # <<>> /\ Top(p).op = op /\ Top(p).pc = pc

\* the innermost frame of p becomes f
Goto(p, f) == /\ stack' = [stack EXCEPT ![p] = SetTop(stack[p], f)]
              /\ UNCHANGED outcome

\* the innermost frame of p becomes f and calls g
Invoke(p, f, g) == /\ stack' = [stack EXCEPT ![p] = Append(SetTop(stack[p], f), g)]
                   /\ UNCHANGED outcome

\* the innermost call of p ends with res (a value, or an exception): its caller
\* resumes with it, or the top-level call of p is over
Return(p, res) ==
    LET s == Pop(stack[p]) IN
    /\ stack' = [stack EXCEPT ![p] =
                    IF s = <<>> THEN s
                    ELSE SetTop(s, [s[Len(s)] EXCEPT !.ret = res])]
    /\ outcome' = IF s = <<>> THEN [outcome EXCEPT ![p].res = res] ELSE outcome

\* the catch block of an operation that holds a session: the failure value is
\* returned after the finally block
Caught(f, msg) == [f EXCEPT !.pc = "close", !.result = Failure(msg)]

\* the store fails the awaited call
Inject == failures < MaxFailures /\ failures' = failures + 1

\* ------------------------------------------------------------ the history
Asked(c) == IF c = NoConf THEN DEFAULT_CONFIDENCE ELSE c

\* the store executed an upsert of a Concept asked with params
NoteUpsert(params) ==
    LET n == params.name IN
    /\ hist' = IF n \in DOMAIN hist
               THEN [hist EXCEPT ![n] = [n |-> @.n + 1,
                                         max |-> Max(@.max, Asked(params.confidence))]]
               ELSE hist @@ (n :> [n |-> 1, max |-> Asked(params.confidence)])
    /\ lastUpsert' = [serial |-> lastUpsert.serial + 1, name |-> n,
                      description |-> params.description,
                      confidence |-> params.confidence]

NoteMerges(T) == relMerges' = relMerges (+) SetToBag(T)

\* a statement handed to session.run: the operation, the argument that tells
\* its requests apart, and the labels and relationship types written into its text
Statement(op, arg, tokens) == [op |-> op, arg |-> arg, tokens |-> tokens]
Issue(st) == issued' = issued \cup {st}

\* what the store's parser takes for a label or a relationship type written
\* bare into the text of a statement: a symbolic name
SymbolicName(t) ==
    /\ Len(t) >= 1
    /\ IsLetter(Ch(t, 1)) \/ Ch(t, 1) = "_"
    /\ \A i \in 2..Len(t) : IsWordChar(Ch(t, i))
Parses(st) == \A t \in st.tokens : SymbolicName(t)

\* ------------------------------------------- KnowledgeStorage.storeConcept
ConceptFrame(params) ==
    [op |-> "storeConcept", pc |-> "merge", params |-> params, id |-> Undef,
     i |-> 1, result |-> None]

ConceptSuccess(f) ==
    [kind |-> "value", success |-> TRUE, id |-> f.id, name |-> f.params.name]

\* after the domain step: the relationships, or the return
ConceptAfterDomain(f) ==
    IF Len(f.params.relationships) > 0
    THEN [f EXCEPT !.pc = "rels", !.i = 1]
    ELSE [f EXCEPT !.pc = "close", !.result = ConceptSuccess(f)]

ConceptAfterMerge(f) ==
    IF ~Falsy(f.params.domain) THEN [f EXCEPT !.pc = "domain"]
    ELSE ConceptAfterDomain(f)

StoreConceptMerge(p) ==
    /\ At(p, "storeConcept", "merge")
    /\ LET f == Top(p)
           q == createConceptQuery(f.params)
           r == RunConceptQuery(nodes, q)
       IN \/ /\ Inject                      \* driver.session() throws
             /\ Return(p, Thrown("session"))
             /\ UNCHANGED <<store, clock, openSessions, calls, web, ghost, issued>>
          \/ /\ Inject                      \* session.run rejects
             /\ openSessions' = openSessions + 1
             /\ Goto(p, Caught(f, "query"))
             /\ UNCHANGED <<store, clock, calls, web, ghost, issued>>
          \/ /\ openSessions' = openSessions + 1
             /\ nodes' = r.nodes
             /\ NoteUpsert(f.params)
             /\ Goto(p, ConceptAfterMerge([f EXCEPT !.id = r.records[1].id]))
             /\ UNCHANGED <<edges, schema, clock, calls, web, failures, relMerges, issued>>

StoreConceptDomain(p) ==
    /\ At(p, "storeConcept", "domain")
    /\ LET f == Top(p)
           r == RunDomainQuery(nodes, edges, "Concept", f.id, f.params.domain)
       IN \/ /\ Inject
             /\ Goto(p, Caught(f, "query"))
             /\ UNCHANGED <<store, clock, openSessions, calls, web, ghost, issued>>
          \/ /\ nodes' = r.nodes /\ edges' = r.edges
             /\ NoteMerges(r.merged)
             /\ Goto(p, ConceptAfterDomain(f))
             /\ UNCHANGED <<schema, clock, openSessions, calls, web, failures, hist,
                            lastUpsert, issued>>

StoreConceptRel(p) ==
    /\ At(p, "storeConcept", "rels")
    /\ LET f == Top(p)
           rel == f.params.relationships[f.i]
           st == Statement("storeConcept", rel.targetId, {rel.type})
           r == RunConceptRelQuery(nodes, edges, f.id, rel)
       IN \/ /\ Inject
             /\ Issue(st)
             /\ Goto(p, Caught(f, "query"))
             /\ UNCHANGED <<store, clock, openSessions, calls, web, ghost>>
          \/ /\ ~Parses(st)                \* MERGE (a)-[r:${rel.type}]->(b)
             /\ Issue(st)
             /\ Goto(p, Caught(f, "syntax"))
             /\ UNCHANGED <<store, clock, openSessions, calls, web, failures, ghost>>
          \/ /\ Parses(st)
             /\ Issue(st)
             /\ edges' = r.edges
             /\ NoteMerges(r.merged)
             /\ Goto(p, IF f.i < Len(f.params.relationships)
                        THEN [f EXCEPT !.i = @ + 1]
                        ELSE [f EXCEPT !.pc = "close", !.result = ConceptSuccess(f)])
             /\ UNCHANGED <<nodes, schema, clock, openSessions, calls, web, failures,
                            hist, lastUpsert>>

\* --------------------------------------------- the finally block: close
\* a return that leaves the session open: the operation without its finally block
ReturnEarly(p, f) == Return(p, f.result) /\ UNCHANGED openSessions
\* await session.close(), then the value of the try or catch block is returned
ReturnClosed(p, f) == Return(p, f.result) /\ openSessions' = openSessions - 1

SessionClose(p) ==
    /\ stack[p] # <<>> /\ Top(p).pc = "close"
    /\ \/ /\ ReturnClosed(p, Top(p))
          /\ UNCHANGED <<store, clock, calls, web, failures, ghost, issued>>
       \/ /\ Inject                         \* session.close() rejects
          /\ openSessions' = openSessions - 1
          /\ Return(p, Thrown("close"))
          /\ UNCHANGED <<store, clock, calls, web, ghost, issued>>

\* ------------------------------------- KnowledgeStorage.createRelationship
RelationshipFrame(params) ==
    [op |-> "createRelationship", pc |-> "merge", params |-> params,
     result |-> None]

CreateRelationshipMerge(p) ==
    /\ At(p, "createRelationship", "merge")
    /\ LET f == Top(p)
           st == Statement("createRelationship", f.params.targetId, {f.params.type})
           r == RunRelationshipQuery(nodes, edges, f.params)
       IN \/ /\ Inject
             /\ Return(p, Thrown("session"))
             /\ UNCHANGED <<store, clock, openSessions, calls, web, ghost, issued>>
          \/ /\ Inject
             /\ Issue(st)
             /\ openSessions' = openSessions + 1
             /\ Goto(p, Caught(f, "query"))
             /\ UNCHANGED <<store, clock, calls, web, ghost>>
          \/ /\ ~Parses(st)                \* MERGE (source)-[r:${type}]->(target)
             /\ Issue(st)
             /\ openSessions' = openSessions + 1
             /\ Goto(p, Caught(f, "syntax"))
             /\ UNCHANGED <<store, clock, calls, web, failures, ghost>>
          \/ /\ Parses(st)
             /\ Issue(st)
             /\ openSessions' = openSessions + 1
             /\ edges' = r.edges
             /\ NoteMerges(r.merged)
             /\ Goto(p, IF Len(r.records) = 0
                        THEN Caught(f, "Failed to create relationship")
                        ELSE [f EXCEPT !.pc = "close",
                                       !.result = [kind |-> "value", success |-> TRUE,
                                                   relationship |-> r.records[1].relationship,
                                                   sourceId |-> r.records[1].sourceId,
                                                   targetId |-> r.records[1].targetId]])
             /\ UNCHANGED <<nodes, schema, clock, calls, web, failures, hist, lastUpsert>>

\* -------------------------------------------- KnowledgeStorage.storeSource
SourceFrame(params) ==
    [op |-> "storeSource", pc |-> "merge", params |-> params, result |-> None]

\* `created` in the result is history: whether the MERGE created the Source node
StoreSourceMerge(p) ==
    /\ At(p, "storeSource", "merge")
    /\ LET f == Top(p)
           r == RunSourceQuery(nodes, f.params)
       IN \/ /\ Inject
             /\ Return(p, Thrown("session"))
             /\ UNCHANGED <<store, clock, openSessions, calls, web, ghost, issued>>
          \/ /\ Inject
             /\ openSessions' = openSessions + 1
             /\ Goto(p, Caught(f, "query"))
             /\ UNCHANGED <<store, clock, calls, web, ghost, issued>>
          \/ /\ openSessions' = openSessions + 1
             /\ nodes' = r.nodes
             /\ Goto(p, [f EXCEPT !.pc = "close",
                                  !.result = [kind |-> "value", success |-> TRUE,
                                              id |-> r.records[1].id,
                                              title |-> r.records[1].title,
                                              created |-> r.created]])
             /\ UNCHANGED <<edges, schema, clock, calls, web, failures, ghost, issued>>


\* ---------------------------------------------- KnowledgeStorage.storeFact
FactFrame(params) ==
    [op |-> "storeFact", pc |-> "create", params |-> params, id |-> Undef,
     conceptId |-> Undef, i |-> 1, result |-> None]

FactSuccess(f) ==
    [kind |-> "value", success |-> TRUE, id |-> f.id,
     statement |-> f.params.statement]

\* params.confidence * 0.9 (NaN when the confidence is absent)
TimesPoint9(c) == IF c = NoConf THEN NoConf ELSE (c * 9) \div 10

FactAfterConcepts(f) ==
    IF ~Falsy(f.params.domain) THEN [f EXCEPT !.pc = "domain"]
    ELSE [f EXCEPT !.pc = "close", !.result = FactSuccess(f)]

\* the for loop over params.concepts from entry i on: a name is upserted and
\* linked, an object with an id is linked, anything else is skipped
RECURSIVE FactLoop(_, _)
FactLoop(f, i) ==
    IF i > Len(f.params.concepts) THEN FactAfterConcepts(f)
    ELSE LET c == f.params.concepts[i] IN
         IF c.kind = "string" THEN [f EXCEPT !.pc = "upsert", !.i = i]
         ELSE IF ~Falsy(c.id) THEN [f EXCEPT !.pc = "linkObject", !.i = i]
         ELSE FactLoop(f, i + 1)

StoreFactCreate(p) ==
    /\ At(p, "storeFact", "create")
    /\ LET f == Top(p)
           r == RunFactQuery(nodes, createFactQuery(f.params))
       IN \/ /\ Inject
             /\ Return(p, Thrown("session"))
             /\ UNCHANGED <<store, clock, openSessions, calls, web, ghost, issued>>
          \/ /\ Inject
             /\ openSessions' = openSessions + 1
             /\ Goto(p, Caught(f, "query"))
             /\ UNCHANGED <<store, clock, calls, web, ghost, issued>>
          \/ /\ openSessions' = openSessions + 1
             /\ nodes' = r.nodes
             /\ Goto(p, FactLoop([f EXCEPT !.id = r.records[1].id], 1))
             /\ UNCHANGED <<edges, schema, clock, calls, web, failures, ghost, issued>>

\* typeof concept === 'string': the name is found or created
FactConceptParams(f) ==
    [name |-> f.params.concepts[f.i].value, description |-> Undef,
     source |-> f.params.source,
     confidence |-> TimesPoint9(f.params.confidence)]

StoreFactUpsert(p) ==
    /\ At(p, "storeFact", "upsert")
    /\ LET f == Top(p)
           r == RunConceptQuery(nodes, createConceptQuery(FactConceptParams(f)))
       IN \/ /\ Inject
             /\ Goto(p, Caught(f, "query"))
             /\ UNCHANGED <<store, clock, openSessions, calls, web, ghost, issued>>
          \/ /\ nodes' = r.nodes
             /\ NoteUpsert(FactConceptParams(f))
             /\ Goto(p, IF Len(r.records) > 0
                        THEN [f EXCEPT !.pc = "link", !.conceptId = r.records[1].id]
                        ELSE FactLoop(f, f.i + 1))
             /\ UNCHANGED <<edges, schema, clock, openSessions, calls, web, failures,
                            relMerges, issued>>

\* the relationship to the concept just upserted
StoreFactLink(p) ==
    /\ At(p, "storeFact", "link")
    /\ LET f == Top(p)
           q == createFactConceptRelationQuery(
                    [factId |-> f.id, conceptId |-> f.conceptId,
                     relationshipType |-> Undef])
           st == Statement("storeFact", q.conceptId, {q.relationshipType})
           r == RunFactConceptRelationQuery(nodes, edges, q)
       IN \/ /\ Inject
             /\ Issue(st)
             /\ Goto(p, Caught(f, "query"))
             /\ UNCHANGED <<store, clock, openSessions, calls, web, ghost>>
          \/ /\ ~Parses(st)                \* MERGE (f)-[r:${relationshipType}]->(c)
             /\ Issue(st)
             /\ Goto(p, Caught(f, "syntax"))
             /\ UNCHANGED <<store, clock, openSessions, calls, web, failures, ghost>>
          \/ /\ Parses(st)
             /\ Issue(st)
             /\ edges' = r.edges
             /\ NoteMerges(r.merged)
             /\ Goto(p, FactLoop(f, f.i + 1))
             /\ UNCHANGED <<nodes, schema, clock, openSessions, calls, web, failures,
                            hist, lastUpsert>>

\* concept.id: the relationship to the concept with that id
StoreFactLinkObject(p) ==
    /\ At(p, "storeFact", "linkObject")
    /\ LET f == Top(p)
           c == f.params.concepts[f.i]
           q == createFactConceptRelationQuery(
                    [factId |-> f.id, conceptId |-> c.id,
                     relationshipType |-> IF Falsy(c.relationshipType) THEN "ABOUT"
                                          ELSE c.relationshipType])
           st == Statement("storeFact", q.conceptId, {q.relationshipType})
           r == RunFactConceptRelationQuery(nodes, edges, q)
       IN \/ /\ Inject
             /\ Issue(st)
             /\ Goto(p, Caught(f, "query"))
             /\ UNCHANGED <<store, clock, openSessions, calls, web, ghost>>
          \/ /\ ~Parses(st)                \* MERGE (f)-[r:${relationshipType}]->(c)
             /\ Issue(st)
             /\ Goto(p, Caught(f, "syntax"))
             /\ UNCHANGED <<store, clock, openSessions, calls, web, failures, ghost>>
          \/ /\ Parses(st)
             /\ Issue(st)
             /\ edges' = r.edges
             /\ NoteMerges(r.merged)
             /\ Goto(p, FactLoop(f, f.i + 1))
             /\ UNCHANGED <<nodes, schema, clock, openSessions, calls, web, failures,
                            hist, lastUpsert>>

StoreFactDomain(p) ==
    /\ At(p, "storeFact", "domain")
    /\ LET f == Top(p)
           r == RunDomainQuery(nodes, edges, "Fact", f.id, f.params.domain)
       IN \/ /\ Inject
             /\ Goto(p, Caught(f, "query"))
             /\ UNCHANGED <<store, clock, openSessions, calls, web, ghost, issued>>
          \/ /\ nodes' = r.nodes /\ edges' = r.edges
             /\ NoteMerges(r.merged)
             /\ Goto(p, [f EXCEPT !.pc = "close", !.result = FactSuccess(f)])
             /\ UNCHANGED <<schema, clock, openSessions, calls, web, failures, hist,
                            lastUpsert, issued>>


\* ----------------------------------------- KnowledgeStorage.storeKnowledge
KnowledgeFrame(params) ==
    [op |-> "storeKnowledge", pc |-> "dispatch", params |-> params,
     id |-> Undef, i |-> 1, ret |-> None, result |-> None]

KnowledgeSuccess(f) ==
    [kind |-> "value", success |-> TRUE, id |-> f.id,
     contentType |-> f.params.contentType,
     relationshipsCreated |-> Len(f.params.relationships)]

\* handleStoreKnowledge: "Relationships created: ${args.relationships ?
\* args.relationships.length : 0}", for a result with success
RelationshipsReported(args) == Len(args.relationships)

\* CREATE (n:Knowledge:<Label> {...}) RETURN n.id as nodeId
RunKnowledgeQuery(ns, nodeLabel, q) ==
    LET n == [NewNode(ns, {"Knowledge", nodeLabel}) EXCEPT
                !.content = q.content, !.source = q.source,
                !.confidence = q.confidence]
    IN [nodes |-> Append(ns, n), records |-> <<[nodeId |-> n.id]>>]

\* the switch on contentType.toLowerCase(), before any await
StoreKnowledgeDispatch(p) ==
    /\ At(p, "storeKnowledge", "dispatch")
    /\ LET f == Top(p)
           a == f.params
       IN \/ /\ a.contentType = Undef       \* undefined.toLowerCase(): TypeError
             /\ Return(p, Thrown("TypeError"))
          \/ /\ a.contentType # Undef
             /\ toLowerCase(a.contentType) = "concept"
             /\ Goto(p, ConceptFrame(
                    [name |-> a.content, description |-> Undef,
                     source |-> a.source, confidence |-> a.metadata.confidence,
                     domain |-> a.metadata.domain, relationships |-> <<>>]))
          \/ /\ a.contentType # Undef
             /\ toLowerCase(a.contentType) = "fact"
             /\ Goto(p, FactFrame(
                    [statement |-> a.content, source |-> a.source,
                     confidence |-> a.metadata.confidence,
                     factType |-> IF Falsy(a.metadata.factType) THEN "general"
                                  ELSE a.metadata.factType,
                     domain |-> a.metadata.domain,
                     concepts |-> a.metadata.concepts]))
          \/ /\ a.contentType # Undef
             /\ toLowerCase(a.contentType) \notin {"concept", "fact"}
             /\ Goto(p, [f EXCEPT !.pc = "create"])
    /\ UNCHANGED <<store, clock, openSessions, calls, web, failures, ghost, issued>>

KnowledgeAfterRels(f) ==
    IF ~Falsy(f.params.metadata.domain) THEN [f EXCEPT !.pc = "domain"]
    ELSE [f EXCEPT !.pc = "close", !.result = KnowledgeSuccess(f)]

\* await this.createRelationship(...) for relationships[i]
KnowledgeRelCall(f, i) ==
    RelationshipFrame([sourceId |-> f.id,
                       targetId |-> f.params.relationships[i].targetNode,
                       type |-> f.params.relationships[i].relationshipType])

StoreKnowledgeCreate(p) ==
    /\ At(p, "storeKnowledge", "create")
    /\ LET f == Top(p)
           a == f.params
           q == [content |-> a.content, source |-> a.source,
                 confidence |-> IF a.metadata.confidence = NoConf
                                   \/ a.metadata.confidence = 0
                                THEN DEFAULT_CONFIDENCE ELSE a.metadata.confidence]
           st == Statement("storeKnowledge", a.content, {Capitalize(a.contentType)})
           r == RunKnowledgeQuery(nodes, Capitalize(a.contentType), q)
           g == [f EXCEPT !.id = r.records[1].nodeId]
       IN \/ /\ Inject
             /\ Return(p, Thrown("session"))
             /\ UNCHANGED <<store, clock, openSessions, calls, web, ghost, issued>>
          \/ /\ Inject
             /\ Issue(st)
             /\ openSessions' = openSessions + 1
             /\ Goto(p, Caught(f, "query"))
             /\ UNCHANGED <<store, clock, calls, web, ghost>>
          \/ /\ ~Parses(st)                \* CREATE (n:Knowledge:${nodeLabel} {...})
             /\ Issue(st)
             /\ openSessions' = openSessions + 1
             /\ Goto(p, Caught(f, "syntax"))
             /\ UNCHANGED <<store, clock, calls, web, failures, ghost>>
          \/ /\ Parses(st)
             /\ Issue(st)
             /\ openSessions' = openSessions + 1
             /\ nodes' = r.nodes
             /\ IF Len(a.relationships) > 0
                THEN Invoke(p, [g EXCEPT !.pc = "relReturn", !.i = 1],
                            KnowledgeRelCall(g, 1))
                ELSE Goto(p, KnowledgeAfterRels(g))
             /\ UNCHANGED <<edges, schema, clock, calls, web, failures, ghost>>

\* createRelationship returned: its value is ignored, its exception is caught
StoreKnowledgeRelReturn(p) ==
    /\ At(p, "storeKnowledge", "relReturn")
    /\ LET f == Top(p)
           g == [f EXCEPT !.ret = None]
       IN /\ f.ret # None
          /\ IF f.ret.kind = "throw" THEN Goto(p, Caught(g, f.ret.error))
             ELSE IF f.i < Len(f.params.relationships)
             THEN Invoke(p, [g EXCEPT !.i = f.i + 1], KnowledgeRelCall(g, f.i + 1))
             ELSE Goto(p, KnowledgeAfterRels(g))
    /\ UNCHANGED <<store, clock, openSessions, calls, web, failures, ghost, issued>>

StoreKnowledgeDomain(p) ==
    /\ At(p, "storeKnowledge", "domain")
    /\ LET f == Top(p)
           r == RunDomainQuery(nodes, edges, "Knowledge", f.id,
                               f.params.metadata.domain)
       IN \/ /\ Inject
             /\ Goto(p, Caught(f, "query"))
             /\ UNCHANGED <<store, clock, openSessions, calls, web, ghost, issued>>
          \/ /\ nodes' = r.nodes /\ edges' = r.edges
             /\ NoteMerges(r.merged)
             /\ Goto(p, [f EXCEPT !.pc = "close", !.result = KnowledgeSuccess(f)])
             /\ UNCHANGED <<schema, clock, openSessions, calls, web, failures, hist,
                            lastUpsert, issued>>


\* ------------------------------------ extractors/mcp-extractor.js: the text
\* the end of the run of letters that starts at i
RECURSIVE WordEnd(_, _)
WordEnd(s, i) ==
    IF i < Len(s) /\ IsLetter(Ch(s, i + 1)) THEN WordEnd(s, i + 1) ELSE i

\* the first position from i on that holds no white space
RECURSIVE SkipSpace(_, _)
SkipSpace(s, i) ==
    IF i <= Len(s) /\ IsSpace(Ch(s, i)) THEN SkipSpace(s, i + 1) ELSE i

\* /\b[A-Z][a-zA-Z]*(?:\s+[A-Z][a-zA-Z]*)*\b/ tried at i, an upper-case letter at
\* a word boundary: the end of the longest match, 0 when the closing \b fails
\* for every number of repetitions
RECURSIVE MatchEnd(_, _)
MatchEnd(s, i) ==
    LET e == WordEnd(s, i)
        t == SkipSpace(s, e + 1)
        more == IF t > e + 1 /\ t <= Len(s) /\ IsUpper(Ch(s, t))
                THEN MatchEnd(s, t) ELSE 0
    IN IF more # 0 THEN more
       ELSE IF e = Len(s) \/ ~IsWordChar(Ch(s, e + 1)) THEN e
       ELSE 0

\* rawOutput.match(conceptRegex): the matches from position i on, left to
\* right; the next match starts at the first position from i on where the
\* expression matches
RECURSIVE MatchConcepts(_, _)
MatchConcepts(s, i) ==
    LET starts == {j \in i..Len(s) :
                     /\ IsUpper(Ch(s, j))
                     /\ (j = 1 \/ ~IsWordChar(Ch(s, j - 1)))
                     /\ MatchEnd(s, j) # 0}
    IN IF starts = {} THEN <<>>
       ELSE LET j == CHOOSE x \in starts : \A y \in starts : x <= y
            IN <<SubSeq(s, j, MatchEnd(s, j))>> \o MatchConcepts(s, MatchEnd(s, j) + 1)

InSeq(x, q) == \E k \in 1..Len(q) : q[k] = x

\* [...new Set(q)]: first occurrences, in order
RECURSIVE Distinct(_)
Distinct(q) ==
    IF q = <<>> THEN <<>>
    ELSE LET front == Distinct(SubSeq(q, 1, Len(q) - 1))
         IN IF InSeq(q[Len(q)], front) THEN front ELSE Append(front, q[Len(q)])

stopwords == {"The", "A", "An", "This", "That", "These", "Those", "I", "You",
              "We", "They"}
MaxConcepts == 10
MinConceptLength == 3

UniqueConcepts(rawOutput) ==
    LET kept == SelectSeq(Distinct(MatchConcepts(rawOutput, 1)),
                          LAMBDA c : c \notin stopwords /\ Len(c) > MinConceptLength)
    IN SubSeq(kept, 1, Min(Len(kept), MaxConcepts))

factIndicators == {"is a", "are", "was", "were", "will be", "can be", "should be",
                   "has", "have", "had", "contains", "includes", "consists of",
                   "enables", "requires", "supports", "contradicts"}
MaxFacts == 5
MinSentenceLength == 20
MaxSentenceLength == 200
StatementPreview == 100

\* rawOutput.split(/[.!?]/): the pieces between the separators, one more than
\* the separators
Split(s) ==
    LET ends == Ascending({i \in 1..Len(s) : Ch(s, i) \in {".", "!", "?"}})
                \o <<Len(s) + 1>>
    IN [k \in 1..Len(ends) |->
          IF (IF k = 1 THEN 1 ELSE ends[k - 1] + 1) > ends[k] - 1 THEN ""
          ELSE SubSeq(s, IF k = 1 THEN 1 ELSE ends[k - 1] + 1, ends[k] - 1)]

\* String.prototype.trim
RECURSIVE TrimEnd(_)
TrimEnd(s) ==
    IF s # "" /\ IsSpace(Ch(s, Len(s))) THEN TrimEnd(SubSeq(s, 1, Len(s) - 1))
    ELSE s
Trim(s) == LET k == SkipSpace(s, 1) IN TrimEnd(SubSeq(s, k, Len(s)))

PotentialFacts(rawOutput) ==
    LET pieces == Split(rawOutput)
        trimmed == [k \in 1..Len(pieces) |-> Trim(pieces[k])]
        sentences == SelectSeq(trimmed,
                        LAMBDA t : Len(t) > MinSentenceLength
                                   /\ Len(t) < MaxSentenceLength)
        kept == SelectSeq(sentences,
                    LAMBDA t : \E ind \in factIndicators :
                                  Includes(toLowerCase(t), ind))
    IN SubSeq(kept, 1, Min(Len(kept), MaxFacts))

\* s.substring(0, n) + (s.length > n ? '...' : '')
Preview(s, n) == IF Len(s) > n THEN SubSeq(s, 1, n) \o "..." ELSE s

\* s.replace(/\s+/g, '-')
RECURSIVE Dashed(_, _)
Dashed(s, i) ==
    IF i > Len(s) THEN ""
    ELSE IF IsSpace(Ch(s, i)) THEN "-" \o Dashed(s, SkipSpace(s, i))
    ELSE Ch(s, i) \o Dashed(s, i + 1)

\* `mcp://${mcpSource.toLowerCase().replace(/\s+/g, '-')}/${Date.now()}`
SourceUrl(mcpSource, now) ==
    "mcp://" \o Dashed(toLowerCase(mcpSource), 1) \o "/" \o ToString(now)


\* ------------------------------------------------ McpExtractor.processOutput
ExtractorFrame(params) ==
    [op |-> "processOutput", pc |-> "start", params |-> params,
     uniqueConcepts |-> <<>>, potentialFacts |-> <<>>,
     concepts |-> <<>>, facts |-> <<>>, source |-> None, i |-> 1,
     stepsFailed |-> 0, sourcesCreated |-> 0, ret |-> None]

\* the value of a processOutput that reached its return statement;
\* stepsFailed and sourcesCreated are history: the storage calls of this
\* extraction that returned success:false, and the Source nodes it created
ExtractorSuccess(f) ==
    [kind |-> "value", success |-> TRUE,
     extractionResults |-> [concepts |-> f.concepts, facts |-> f.facts,
                            processingMethod |-> "heuristic", source |-> f.source],
     stepsFailed |-> f.stepsFailed, sourcesCreated |-> f.sourcesCreated]

ExtractedConcept(f, name) ==
    ConceptFrame([name |-> name,
                  description |-> "Concept extracted from " \o f.params.mcpSource,
                  source |-> f.params.mcpSource, confidence |-> 70,
                  domain |-> Undef, relationships |-> <<>>])

\* concepts: extractionResults.concepts.filter(c => factStatement.includes(c.name))
\*                                     .map(c => c.id)
ExtractedFact(f, statement) ==
    LET linked == SelectSeq(f.concepts, LAMBDA c : Includes(statement, c.name))
    IN FactFrame([statement |-> statement, source |-> f.params.mcpSource,
                  confidence |-> 60, factType |-> "extracted", domain |-> Undef,
                  concepts |-> [k \in 1..Len(linked) |->
                                  [kind |-> "string", value |-> linked[k].id]]])

ExtractedSource(f, now) ==
    SourceFrame([title |-> f.params.mcpSource \o " Output",
                 url |-> SourceUrl(f.params.mcpSource, now),
                 sourceType |-> "mcp_processing"])

\* the i-th link to the source: the concepts first, then the facts
ExtractedLink(f, i) ==
    IF i <= Len(f.concepts)
    THEN RelationshipFrame([sourceId |-> f.concepts[i].id,
                            targetId |-> f.source.id, type |-> "DERIVED_FROM"])
    ELSE RelationshipFrame([sourceId |-> f.facts[i - Len(f.concepts)].id,
                            targetId |-> f.source.id, type |-> "CITED_FROM"])

\* return {success: true, extractionResults}
ExtractorFinish(p, f) ==
    /\ Return(p, ExtractorSuccess(f))
    /\ UNCHANGED clock

\* the catch block of processOutput
ExtractorCatch(p, msg) ==
    /\ Return(p, Failure(msg))
    /\ UNCHANGED clock

ExtractorCall(p, f, g) == Invoke(p, f, g) /\ UNCHANGED clock

\* the links from link i on
ExtractorLinks(p, f, i) ==
    IF i <= Len(f.concepts) + Len(f.facts)
    THEN ExtractorCall(p, [f EXCEPT !.pc = "linkReturn", !.i = i, !.ret = None],
                       ExtractedLink(f, i))
    ELSE ExtractorFinish(p, f)

\* storeSource({... url: `mcp://${mcpSource.toLowerCase()...}` ...}); an absent
\* mcpSource is a TypeError, caught
\* Date.now() is read here: a value not before the last one read
ExtractorSource(p, f) ==
    IF f.params.mcpSource = Undef THEN ExtractorCatch(p, "TypeError")
    ELSE \E now \in clock..MaxClock :
            /\ clock' = now
            /\ Invoke(p, [f EXCEPT !.pc = "sourceReturn", !.ret = None],
                      ExtractedSource(f, now))

\* the facts from fact i on, then the source
ExtractorFacts(p, f, i) ==
    IF i <= Len(f.potentialFacts)
    THEN ExtractorCall(p, [f EXCEPT !.pc = "factReturn", !.i = i, !.ret = None],
                       ExtractedFact(f, f.potentialFacts[i]))
    ELSE ExtractorSource(p, f)

\* the concepts from concept i on, then the facts
ExtractorConcepts(p, f, i) ==
    IF i <= Len(f.uniqueConcepts)
    THEN ExtractorCall(p, [f EXCEPT !.pc = "conceptReturn", !.i = i, !.ret = None],
                       ExtractedConcept(f, f.uniqueConcepts[i]))
    ELSE ExtractorFacts(p, f, 1)

ProcessOutputStart(p) ==
    /\ At(p, "processOutput", "start")
    /\ LET f == Top(p) IN
       \/ /\ f.params.rawOutput = Undef     \* undefined.match(): TypeError, caught
          /\ ExtractorCatch(p, "TypeError")
       \/ /\ f.params.rawOutput # Undef
          /\ ExtractorConcepts(p,
                [f EXCEPT !.uniqueConcepts = UniqueConcepts(f.params.rawOutput),
                          !.potentialFacts = PotentialFacts(f.params.rawOutput)], 1)
    /\ UNCHANGED <<store, openSessions, calls, web, failures, hist, lastUpsert,
                   relMerges, issued>>

ProcessOutputConceptReturn(p) ==
    /\ At(p, "processOutput", "conceptReturn")
    /\ LET f == Top(p) IN
       /\ f.ret # None
       /\ IF f.ret.kind = "throw" THEN ExtractorCatch(p, f.ret.error)
          ELSE IF f.ret.success
          THEN ExtractorConcepts(p,
                  [f EXCEPT !.concepts = Append(@, [id |-> f.ret.id,
                                                    name |-> f.uniqueConcepts[f.i]])],
                  f.i + 1)
          ELSE ExtractorConcepts(p, [f EXCEPT !.stepsFailed = @ + 1], f.i + 1)
    /\ UNCHANGED <<store, openSessions, calls, web, failures, hist, lastUpsert,
                   relMerges, issued>>

ProcessOutputFactReturn(p) ==
    /\ At(p, "processOutput", "factReturn")
    /\ LET f == Top(p) IN
       /\ f.ret # None
       /\ IF f.ret.kind = "throw" THEN ExtractorCatch(p, f.ret.error)
          ELSE IF f.ret.success
          THEN ExtractorFacts(p,
                  [f EXCEPT !.facts = Append(@,
                      [id |-> f.ret.id,
                       statement |-> Preview(f.potentialFacts[f.i], StatementPreview)])],
                  f.i + 1)
          ELSE ExtractorFacts(p, [f EXCEPT !.stepsFailed = @ + 1], f.i + 1)
    /\ UNCHANGED <<store, openSessions, calls, web, failures, hist, lastUpsert,
                   relMerges, issued>>

ProcessOutputSourceReturn(p) ==
    /\ At(p, "processOutput", "sourceReturn")
    /\ LET f == Top(p) IN
       /\ f.ret # None
       /\ IF f.ret.kind = "throw" THEN ExtractorCatch(p, f.ret.error)
          ELSE IF f.ret.success
          THEN ExtractorLinks(p,
                  [f EXCEPT !.source = [id |-> f.ret.id, title |-> f.ret.title],
                            !.sourcesCreated = IF f.ret.created THEN 1 ELSE 0], 1)
          ELSE ExtractorFinish(p, [f EXCEPT !.stepsFailed = @ + 1])
    /\ UNCHANGED <<store, openSessions, calls, web, failures, hist, lastUpsert,
                   relMerges, issued>>

\* the value of createRelationship is not looked at
ProcessOutputLinkReturn(p) ==
    /\ At(p, "processOutput", "linkReturn")
    /\ LET f == Top(p) IN
       /\ f.ret # None
       /\ IF f.ret.kind = "throw" THEN ExtractorCatch(p, f.ret.error)
          ELSE IF f.ret.success
          THEN ExtractorLinks(p, f, f.i + 1)
          ELSE ExtractorLinks(p, [f EXCEPT !.stepsFailed = @ + 1], f.i + 1)
    /\ UNCHANGED <<store, openSessions, calls, web, failures, hist, lastUpsert,
                   relMerges, issued>>


\* ------------------------------------------------- knowledge/retrieval.js
HexChars == "0123456789abcdefABCDEF"

\* /^[0-9a-f]{8}-[0-9a-f]{4}-[0-9a-f]{4}-[0-9a-f]{4}-[0-9a-f]{12}$/i
isUuid(str) ==
    /\ Len(str) = 36
    /\ \A i \in 1..36 :
          IF i \in {9, 14, 19, 24} THEN Ch(str, i) = "-"
          ELSE IndexIn(Ch(str, i), HexChars) # 0

\* the relationships of the graph
Rels(es) == BagToSet(es)

\* the steps of a pattern (a)-[r]-(b) out of node id a: the relationship and
\* the node at its other end, in either direction
StepsFrom(E, a, types) ==
    {[rel |-> e, to |-> e[3]] : e \in {x \in E : x[1] = a /\ (types = {} \/ x[2] \in types)}}
    \cup
    {[rel |-> e, to |-> e[1]] : e \in {x \in E : x[3] = a /\ (types = {} \/ x[2] \in types)}}

PathRels(path) == {path[k].rel : k \in 1..Len(path)}

\* the paths of exactly n relationships out of a; a relationship occurs once in a path
RECURSIVE PathsOfLength(_, _, _, _)
PathsOfLength(E, a, types, n) ==
    IF n = 1 THEN {<<st>> : st \in StepsFrom(E, a, types)}
    ELSE UNION {{Append(path, st) :
                   st \in {x \in StepsFrom(E, path[Len(path)].to, types) :
                             x.rel \notin PathRels(path)}} :
                path \in PathsOfLength(E, a, types, n - 1)}

\* (a)-[r:types*1..maxLength + 1]-(...)
PathsBeyond(E, a, types, maxLength) ==
    UNION {PathsOfLength(E, a, types, n) : n \in 1..(maxLength + 1)}

\* (a)-[r:types*1..maxLength]-(...)
PathsUpTo(E, a, types, maxLength) ==
    UNION {PathsOfLength(E, a, types, n) : n \in 1..maxLength}

\* a property of a node matches the text, or holds it
TextMatches(v, text) == v # Undef /\ (v = text \/ Includes(v, text))

KnowledgeNodes(ns) == {i \in 1..Len(ns) : HasLabel(ns[i], "Knowledge")}

\* the orders in which the store may return the rows S
Perms(S) ==
    {s \in [1..Cardinality(S) -> S] :
        \A i, j \in 1..Cardinality(S) : i # j => s[i] # s[j]}

\* no ORDER BY: the rows come in any order
AnyOrder(S, key) == Perms(S)

\* ORDER BY key DESC: rows of equal key come in any order
Descending(S, key) ==
    {s \in Perms(S) : \A i \in 1..(Len(s) - 1) : key[s[i]] >= key[s[i + 1]]}

\* ORDER BY key ASC
AscendingBy(S, key) ==
    {s \in Perms(S) : \A i \in 1..(Len(s) - 1) : key[s[i]] <= key[s[i + 1]]}

\* contextFilters.contentType: absent, one type, or an array of types
NoType == [array |-> FALSE, items |-> <<>>]
OneType(t) == [array |-> FALSE, items |-> <<t>>]
Types(ts) == [array |-> TRUE, items |-> ts]
NoFilters ==
    [domain |-> Undef, minConfidence |-> NoConf, contentType |-> NoType, source |-> Undef]

\* the pieces of text of a search statement
MatchKnowledge == "MATCH (n:Knowledge)"
Where == "WHERE"
DomainPattern == "-[:BELONGS_TO]->(d:Domain {name: $domain})"
ConfidenceCheck == "n.confidence >= $minConfidence AND"
SourceCheck == "n.source = $source AND"
AnyLabel == "ANY(label IN labels(n)"
LabelIn(labels) == "label IN ['" \o labels \o "'])"
MatchLabelled(label) == "MATCH (n:Knowledge:" \o label \o ")"
Contains == "toLower(n.content) CONTAINS toLower($query) OR ..."
Regex == "n.content =~ '(?i).*' + $query + '.*' OR ..."
Tails == {"exact", "semantic", "graph", "hybrid"}

\* String.prototype.replace(old, new) on the pieces: the first occurrence only
Replace(q, old, new) ==
    IF \E k \in 1..Len(q) : q[k] = old
    THEN LET k == CHOOSE i \in 1..Len(q) : q[i] = old /\ \A j \in 1..(i - 1) : q[j] # old
         IN SubSeq(q, 1, k - 1) \o new \o SubSeq(q, k + 1, Len(q))
    ELSE q

\* the switch on searchType; hybrid is also the default
SearchKind(searchType) ==
    IF searchType \in {"exact", "semantic", "graph"} THEN searchType ELSE "hybrid"

BaseQuery(searchType) ==
    <<MatchKnowledge, Where,
      IF SearchKind(searchType) = "semantic" THEN Regex ELSE Contains,
      SearchKind(searchType)>>

\* type.charAt(0).toUpperCase() + type.slice(1), joined by '|'
RECURSIVE JoinLabels(_)
JoinLabels(ts) ==
    IF Len(ts) = 0 THEN ""
    ELSE IF Len(ts) = 1 THEN Capitalize(ts[1])
    ELSE Capitalize(ts[1]) \o "|" \o JoinLabels(Tail(ts))

WithDomain(q, cf) ==
    IF Falsy(cf.domain) THEN q
    ELSE Replace(q, MatchKnowledge, <<MatchKnowledge, DomainPattern>>)

WithMinConfidence(q, cf) ==
    IF cf.minConfidence = 0 \/ cf.minConfidence = NoConf THEN q
    ELSE IF \E k \in 1..Len(q) : q[k] = Where
    THEN Replace(q, Where, <<Where, ConfidenceCheck>>)
    ELSE Replace(q, MatchKnowledge, <<MatchKnowledge, Where, ConfidenceCheck>>)

WithContentType(q, cf) ==
    IF cf.contentType.array
    THEN Replace(q, MatchKnowledge,
                 <<MatchKnowledge, Where, AnyLabel, Where,
                   LabelIn(JoinLabels(cf.contentType.items))>>)
    ELSE IF Len(cf.contentType.items) = 0 \/ cf.contentType.items[1] = "" THEN q
    ELSE Replace(q, MatchKnowledge,
                 <<MatchLabelled(Capitalize(cf.contentType.items[1]))>>)

WithSource(q, cf) ==
    IF Falsy(cf.source) THEN q
    ELSE IF \E k \in 1..Len(q) : q[k] = Where
    THEN Replace(q, Where, <<Where, SourceCheck>>)
    ELSE Replace(q, MatchKnowledge, <<MatchKnowledge, Where, SourceCheck>>)

\* cypherQuery, after the context filters are applied
SearchQuery(params) ==
    LET cf == params.contextFilters
    IN WithSource(WithContentType(WithMinConfidence(
           WithDomain(BaseQuery(params.searchType), cf), cf), cf), cf)

\* the labels written into the text of the search statement
SearchLabels(params) ==
    LET ct == params.contextFilters.contentType
    IN IF ct.array THEN {JoinLabels(ct.items)}
       ELSE {Capitalize(ct.items[k]) : k \in {i \in 1..Len(ct.items) : ct.items[i] # ""}}

\* the statement as the store reads it: MATCH of the node, with a label or
\* without, the pattern to the domain if any, WHERE, the checks joined by AND,
\* the predicate on the text, the rest of the statement
WherePosition(q) == IF Len(q) >= 2 /\ q[2] = DomainPattern THEN 3 ELSE 2
PredicatePosition(q) ==
    IF \E k \in 1..Len(q) : q[k] \in {Contains, Regex}
    THEN CHOOSE k \in 1..Len(q) : q[k] \in {Contains, Regex}
                                   /\ \A j \in 1..(k - 1) : q[j] \notin {Contains, Regex}
    ELSE 0

SearchParses(q, labels) ==
    LET w == WherePosition(q)
        t == PredicatePosition(q)
    IN /\ q[1] = MatchKnowledge
          \/ \E l \in labels : SymbolicName(l) /\ q[1] = MatchLabelled(l)
       /\ Len(q) = t + 1 /\ w < t
       /\ q[w] = Where
       /\ \A k \in (w + 1)..(t - 1) : q[k] \in {ConfidenceCheck, SourceCheck}
       /\ q[Len(q)] \in Tails

\* toLower(v) CONTAINS toLower($query), or v =~ "(?i).*" + $query + ".*" for a
\* query of letters, digits and blanks; null for an absent property
HitAny(v, query) == v # Undef
Hit(v, query) == v # Undef /\ Includes(toLowerCase(v), toLowerCase(query))

InDomain(ns, es, i, domain) ==
    \E j \in Matching(ns, "Domain", "name", domain) :
        BagIn(<<ns[i].id, "BELONGS_TO", ns[j].id>>, es)

\* the WHERE of a statement that parses: AND binds tighter than OR, so the
\* checks put after WHERE go with the predicate on n.content
SearchWhere(q, n, params) ==
    LET cf == params.contextFilters
        checks == {q[k] : k \in 1..Len(q)}
    IN \/ /\ ConfidenceCheck \in checks =>
               n.confidence # NoConf /\ n.confidence >= cf.minConfidence
          /\ SourceCheck \in checks => n.source # Undef /\ n.source = cf.source
          /\ Hit(n.content, params.query)
       \/ Hit(n.name, params.query)
       \/ Hit(n.statement, params.query)

\* (n)-[r*1..2]-(connected:Knowledge), (n)-[r]-(connected:Knowledge)
Connected(ns, es, i, hops) ==
    {j \in KnowledgeNodes(ns) :
        \E path \in PathsUpTo(Rels(es), ns[i].id, {}, hops) :
            ns[j].id = path[Len(path)].to}

\* the nodes of the rows a search statement that parses returns, before
\* ORDER BY and LIMIT
SearchMatches(ns, es, params) ==
    LET q == SearchQuery(params)
        cf == params.contextFilters
    IN {i \in KnowledgeNodes(ns) :
          /\ q[1] # MatchKnowledge => HasLabel(ns[i], Capitalize(cf.contentType.items[1]))
          /\ DomainPattern \in {q[k] : k \in 1..Len(q)} => InDomain(ns, es, i, cf.domain)
          /\ SearchWhere(q, ns[i], params)
          /\ q[Len(q)] = "graph" => Connected(ns, es, i, 2) # {}}

\* the Levenshtein distance of a and b, row by row: the cells 0..j of the row
\* of the character c of a, over the row `prev` of the character before it
RECURSIVE LevCells(_, _, _, _)
LevCells(prev, c, b, j) ==
    IF j = 0 THEN <<prev[1] + 1>>
    ELSE LET cur == LevCells(prev, c, b, j - 1)
         IN Append(cur, Min(Min(prev[j + 1] + 1, cur[j] + 1),
                            prev[j] + (IF c = Ch(b, j) THEN 0 ELSE 1)))

RECURSIVE UpTo(_)
UpTo(n) == IF n = 0 THEN <<0>> ELSE Append(UpTo(n - 1), n)

RECURSIVE LevRow(_, _, _)
LevRow(a, b, i) ==
    IF i = 0 THEN UpTo(Len(b))
    ELSE LET prev == LevRow(a, b, i - 1)
         IN IF Len(prev) = 0 THEN prev ELSE LevCells(prev, Ch(a, i), b, Len(b))

\* apoc.text.levenshteinSimilarity(a, b), in ten-thousandths
levenshteinSimilarity(a, b) ==
    LET longest == Max(Len(a), Len(b))
    IN IF longest = 0 THEN 10000
       ELSE (10000 * (longest - LevRow(a, b, Len(a))[Len(b) + 1])) \div longest

\* CASE WHEN n.confidence IS NOT NULL THEN n.confidence ELSE 0.5 END
ConfidenceOr50(n) == IF n.confidence = NoConf THEN 50 ELSE n.confidence

\* CASE WHEN n.content IS NOT NULL THEN levenshteinSimilarity(...) ... ELSE 0.5 END
textSimilarity(n, query) ==
    LET v == IF n.content # Undef THEN n.content
             ELSE IF n.name # Undef THEN n.name ELSE n.statement
    IN IF v = Undef THEN 5000
       ELSE levenshteinSimilarity(toLowerCase(v), toLowerCase(query))

\* the relevance of the row of n, in ten-thousandths
Relevance(n, params) ==
    IF SearchKind(params.searchType) \in {"exact", "graph"}
    THEN 100 * ConfidenceOr50(n)
    ELSE (7 * textSimilarity(n, params.query) + 300 * ConfidenceOr50(n)) \div 10

\* node.content || node.name || node.statement
Display(n) ==
    IF ~Falsy(n.content) THEN n.content
    ELSE IF ~Falsy(n.name) THEN n.name
    ELSE IF ~Falsy(n.statement) THEN n.statement
    ELSE "{}"

\* record.get('n').labels.find(label => label !== 'Knowledge') || 'Unknown'
NodeType(n) ==
    IF n.labels \ {"Knowledge"} = {} THEN "Unknown"
    ELSE CHOOSE l \in n.labels \ {"Knowledge"} : TRUE

\* result.records.map(...): the entry of the results for the row of n
\* relatedConcepts is read from the column `related`, which only the hybrid
\* statement returns (OPTIONAL MATCH (n)-[r]-(connected:Knowledge))
SearchResult(ns, es, i, params) ==
    [id |-> ns[i].id, content |-> Display(ns[i]), contentType |-> NodeType(ns[i]),
     confidence |-> IF ns[i].confidence = NoConf \/ ns[i].confidence = 0 THEN 50
                    ELSE ns[i].confidence,
     relevance |-> Relevance(ns[i], params),
     relatedConcepts |-> IF SearchKind(params.searchType) = "hybrid"
                         THEN {ns[j].id : j \in Connected(ns, es, i, 1)}
                         ELSE {}]

RetrievalFrame(op, params) ==
    [op |-> op, pc |-> "run", params |-> params, result |-> None]

SearchSuccess(f, results) ==
    [f EXCEPT !.pc = "close",
              !.result = [kind |-> "value", success |-> TRUE, results |-> results,
                          totalCount |-> Len(results),
                          searchType |-> f.params.searchType]]

\* KnowledgeRetrieval.searchKnowledge
SearchKnowledgeRun(p) ==
    /\ At(p, "searchKnowledge", "run")
    /\ LET f == Top(p)
           a == f.params
           st == Statement("searchKnowledge", a.query, SearchLabels(a))
       IN \/ /\ Inject
             /\ Return(p, Thrown("session"))
             /\ UNCHANGED <<openSessions, issued>>
          \/ /\ Inject
             /\ Issue(st)
             /\ openSessions' = openSessions + 1
             /\ Goto(p, Caught(f, "query"))
          \/ /\ a.query = Undef             \* no $query: rejected, or no row matches
             /\ Issue(st)
             /\ openSessions' = openSessions + 1
             /\ UNCHANGED failures
             /\ \/ Goto(p, Caught(f, "parameter"))
                \/ Goto(p, SearchSuccess(f, <<>>))
          \/ /\ a.query # Undef
             /\ ~SearchParses(SearchQuery(a), SearchLabels(a))
             /\ Issue(st)
             /\ openSessions' = openSessions + 1
             /\ UNCHANGED failures
             /\ Goto(p, Caught(f, "syntax"))
          \/ /\ a.query # Undef
             /\ SearchParses(SearchQuery(a), SearchLabels(a))
             /\ Issue(st)
             /\ openSessions' = openSessions + 1
             /\ UNCHANGED failures
             /\ \E rows \in Descending(SearchMatches(nodes, edges, a),
                                       [i \in NodeIdx |-> Relevance(nodes[i], a)]) :
                   Goto(p, SearchSuccess(f,
                      [k \in 1..Min(Len(rows), a.maxResults) |->
                          SearchResult(nodes, edges, rows[k], a)]))
    /\ UNCHANGED <<store, clock, calls, web, ghost>>

\* MATCH (start:Knowledge ...): by id for a UUID, else by name, content or statement
StartNodes(ns, startConcept) ==
    IF isUuid(startConcept)
    THEN Matching(ns, "Knowledge", "id", startConcept)
    ELSE {i \in KnowledgeNodes(ns) :
            \E v \in {ns[i].name, ns[i].content, ns[i].statement} :
                TextMatches(v, startConcept)}

\* collect(DISTINCT {node: connected, depth: depth, relationships: [...]})
\* for the paths out of start that end in a Knowledge node
Connections(ns, es, start, types, maxDepth) ==
    {[id |-> path[Len(path)].to, depth |-> Len(path),
      relationships |-> [k \in 1..Len(path) |-> path[k].rel]] :
        path \in {x \in PathsUpTo(Rels(es), ns[start].id, types, maxDepth) :
                    \E j \in KnowledgeNodes(ns) : ns[j].id = x[Len(x)].to}}

\* [rel in rels WHERE startNode(rel) = start | type(rel)]
OutOfStart(rels, startId) ==
    LET kept == SelectSeq(rels, LAMBDA e : e[1] = startId)
    IN [k \in 1..Len(kept) |-> kept[k][2]]

\* KnowledgeRetrieval.exploreKnowledgeGraph
ExploreKnowledgeGraphRun(p) ==
    /\ At(p, "exploreKnowledgeGraph", "run")
    /\ LET f == Top(p)
           a == f.params
           types == {a.relationshipTypes[k] : k \in 1..Len(a.relationshipTypes)}
           st == Statement("exploreKnowledgeGraph", a.startConcept, types)
           found == {i \in StartNodes(nodes, a.startConcept) :
                       Connections(nodes, edges, i, types, a.maxDepth) # {}}
       IN \/ /\ Inject
             /\ Return(p, Thrown("session"))
             /\ UNCHANGED <<openSessions, issued>>
          \/ /\ Inject
             /\ Issue(st)
             /\ openSessions' = openSessions + 1
             /\ Goto(p, Caught(f, "query"))
          \/ /\ ~Parses(st)                \* [r:${relationshipTypes.join('|')}*1..d]
             /\ Issue(st)
             /\ openSessions' = openSessions + 1
             /\ UNCHANGED failures
             /\ Goto(p, Caught(f, "syntax"))
          \/ /\ Parses(st)
             /\ found = {}                  \* result.records.length === 0
             /\ Issue(st)
             /\ openSessions' = openSessions + 1
             /\ UNCHANGED failures
             /\ Goto(p, Caught(f, "No concept found matching: " \o a.startConcept))
          \/ \E start \in found :           \* LIMIT 1
                /\ Parses(st)
                /\ Issue(st)
                /\ openSessions' = openSessions + 1
                /\ UNCHANGED failures
                /\ Goto(p, [f EXCEPT
                      !.pc = "close",
                      !.result =
                         [kind |-> "value", success |-> TRUE,
                          startNode |-> nodes[start].id,
                          connectedNodes |->
                             {[id |-> c.id, depth |-> c.depth,
                               relationships |->
                                  OutOfStart(c.relationships, nodes[start].id)] :
                                c \in Connections(nodes, edges, start, types,
                                                  a.maxDepth)}]])
    /\ UNCHANGED <<store, clock, calls, web, ghost>>

\* cypherBuilder.findPathsQuery: each end is matched by id for a UUID, else by
\* name; the relationship types are joined into the pattern of the path
findPathsQuery(params) ==
    [matchA |-> IF isUuid(params.conceptA) THEN "id" ELSE "name",
     matchB |-> IF isUuid(params.conceptB) THEN "id" ELSE "name",
     relFilter |-> {params.relationshipTypes[k] :
                      k \in 1..Len(params.relationshipTypes)},
     conceptA |-> params.conceptA, conceptB |-> params.conceptB,
     maxPathLength |-> params.maxPathLength]

\* MATCH ${matchA}, ${matchB}: matching a by name puts its WHERE in front of
\* ", (b ...)", and a pattern cannot follow the WHERE of a MATCH
PathsParse(q) == q.matchA = "id" /\ \A t \in q.relFilter : SymbolicName(t)

\* (a:Concept {id: $concept}), or (a:Concept) WHERE a.name = $concept OR a.name
\* CONTAINS $concept
PathEndNodes(ns, how, concept) ==
    IF how = "id" THEN Matching(ns, "Concept", "id", concept)
    ELSE {i \in 1..Len(ns) : HasLabel(ns[i], "Concept")
                              /\ TextMatches(ns[i].name, concept)}
MaxPaths == 10

\* MATCH path = (a)-[r*1..maxPathLength]-(b): the rows of a statement that parses
FoundPaths(ns, es, q) ==
    UNION {{[from |-> ns[i].id, steps |-> path] :
              path \in {x \in PathsUpTo(Rels(es), ns[i].id, q.relFilter,
                                       q.maxPathLength) :
                          \E j \in PathEndNodes(ns, q.matchB, q.conceptB) :
                              ns[j].id = x[Len(x)].to}} :
           i \in PathEndNodes(ns, q.matchA, q.conceptA)}

\* no LIMIT: every row is kept
AllPaths(all) == {all}

\* ORDER BY pathLength ASC LIMIT 10: the rows kept; which rows of the last
\* length are kept is the store's choice
KeptPaths(all) ==
    {T \in SUBSET all :
        /\ Cardinality(T) = Min(Cardinality(all), MaxPaths)
        /\ \A x \in T, y \in all \ T : Len(x.steps) <= Len(y.steps)}

\* the rows kept, shortest first
RECURSIVE ByLength(_)
ByLength(T) ==
    IF T = {} THEN <<>>
    ELSE LET x == CHOOSE r \in T : \A y \in T : Len(r.steps) <= Len(y.steps)
         IN <<x>> \o ByLength(T \ {x})

\* result.records.map(...): pathNodes[i] -> pathNodes[i + 1] with rels[i].type
PathOf(row, index) ==
    LET pathNodes == <<row.from>> \o [k \in 1..Len(row.steps) |-> row.steps[k].to]
    IN [index |-> index, length |-> Len(row.steps), nodes |-> pathNodes,
        segments |-> [k \in 1..(Len(pathNodes) - 1) |->
                         [source |-> pathNodes[k],
                          relationship |-> row.steps[k].rel[2],
                          target |-> pathNodes[k + 1]]]]

\* Math.min(...paths.map(p => p.length))
MinLength(paths) ==
    CHOOSE m \in {paths[k].length : k \in 1..Len(paths)} :
        \A k \in 1..Len(paths) : m <= paths[k].length

\* KnowledgeRetrieval.findKnowledgePaths
FindKnowledgePathsRun(p) ==
    /\ At(p, "findKnowledgePaths", "run")
    /\ LET f == Top(p)
           q == findPathsQuery([conceptA |-> f.params.conceptA,
                                conceptB |-> f.params.conceptB,
                                maxPathLength |-> f.params.maxPathLength,
                                relationshipTypes |-> f.params.relationshipConstraints])
           st == Statement("findKnowledgePaths", q.conceptA, q.relFilter)
           all == FoundPaths(nodes, edges, q)
       IN \/ /\ Inject
             /\ Return(p, Thrown("session"))
             /\ UNCHANGED <<openSessions, issued>>
          \/ /\ Inject
             /\ Issue(st)
             /\ openSessions' = openSessions + 1
             /\ Goto(p, Caught(f, "query"))
          \/ /\ ~PathsParse(q)
             /\ Issue(st)
             /\ openSessions' = openSessions + 1
             /\ UNCHANGED failures
             /\ Goto(p, Caught(f, "syntax"))
          \/ /\ PathsParse(q)
             /\ all = {}                    \* result.records.length === 0
             /\ Issue(st)
             /\ openSessions' = openSessions + 1
             /\ UNCHANGED failures
             /\ Goto(p, [f EXCEPT !.pc = "close",
                                  !.result = [kind |-> "value", success |-> TRUE,
                                              found |-> FALSE]])
          \/ /\ PathsParse(q)
             /\ all # {}
             /\ Issue(st)
             /\ openSessions' = openSessions + 1
             /\ UNCHANGED failures
             /\ \E kept \in KeptPaths(all) :
                   LET rows == ByLength(kept)
                       paths == [k \in 1..Len(rows) |-> PathOf(rows[k], k)]
                   IN Goto(p, [f EXCEPT
                         !.pc = "close",
                         !.result = [kind |-> "value", success |-> TRUE,
                                     found |-> TRUE, paths |-> paths,
                                     count |-> Len(paths),
                                     shortestPathLength |-> MinLength(paths)]])
    /\ UNCHANGED <<store, clock, calls, web, ghost>>

\* cypherBuilder.analyzeGapsQuery: the analysis types with a statement
GapTypesAny == {"missing-connections", "weak-areas", "outdated-content", "other"}
GapTypes == {"missing-connections", "weak-areas", "outdated-content"}
MaxGapResults == 20
WeakConnections == 3
NoKeywordsSimilarity == 50
OutdatedDays == 90

\* (d:Domain {name: $domain})<-[:BELONGS_TO]-(c:Concept)
DomainConcepts(ns, es, domain) ==
    {i \in 1..Len(ns) :
        /\ HasLabel(ns[i], "Concept")
        /\ \E j \in Matching(ns, "Domain", "name", domain) :
              BagIn(<<ns[i].id, "BELONGS_TO", ns[j].id>>, es)}

OutDegree(es, id) ==
    LET out == {e \in BagToSet(es) : e[1] = id}
    IN IF out = {} THEN 0 ELSE BagCardinality([e \in out |-> es[e]])
InDegree(es, id) ==
    LET into == {e \in BagToSet(es) : e[3] = id}
    IN IF into = {} THEN 0 ELSE BagCardinality([e \in into |-> es[e]])

\* NOT (c)-[]-(c2)
Unconnected(es, a, b) ==
    ~\E e \in BagToSet(es) : (e[1] = a /\ e[3] = b) \/ (e[1] = b /\ e[3] = a)

\* no WHERE after the WITH of weak-areas
WeakOrNot(connectionCount, confidence, threshold) == TRUE

\* WHERE outDegree + inDegree < 3 OR confidence < $threshold: a comparison
\* with a null confidence is not true
Weak(connectionCount, confidence, threshold) ==
    \/ connectionCount < WeakConnections
    \/ confidence # NoConf /\ confidence < threshold

\* duration.between(c.last_updated, datetime()).days: the writes of the model
\* and its analyses are of the same day
DaysSinceUpdate(n) == 0

\* the rows of the gap statement, before ORDER BY and LIMIT, each with the
\* key it is ordered by (ascending)
GapRows(ns, es, params) ==
    LET members == DomainConcepts(ns, es, params.domain) IN
    CASE params.analysisType = "missing-connections" ->
           {[concept1 |-> ns[x[1]].name, concept2 |-> ns[x[2]].name,
             similarity |-> NoKeywordsSimilarity, key |-> 0 - NoKeywordsSimilarity] :
              x \in {y \in members \X members :
                       /\ y[1] # y[2]                     \* c <> c2
                       /\ Unconnected(es, ns[y[1]].id, ns[y[2]].id)
                       /\ NoKeywordsSimilarity > params.threshold}}
      [] params.analysisType = "weak-areas" ->
           {[concept |-> ns[i].name,
             connectionCount |-> OutDegree(es, ns[i].id) + InDegree(es, ns[i].id),
             confidence |-> ns[i].confidence, reason |-> "weak_connections",
             key |-> 1000 * (OutDegree(es, ns[i].id) + InDegree(es, ns[i].id))
                     + (IF ns[i].confidence = NoConf THEN 999 ELSE ns[i].confidence)] :
              i \in {x \in members :
                       Weak(OutDegree(es, ns[x].id) + InDegree(es, ns[x].id),
                            ns[x].confidence, params.threshold)}}
      [] OTHER ->
           {[concept |-> ns[i].name, source |-> ns[i].source,
             daysSinceUpdate |-> DaysSinceUpdate(ns[i]),
             confidence |-> ns[i].confidence, key |-> 0 - DaysSinceUpdate(ns[i])] :
              i \in {x \in members : DaysSinceUpdate(ns[x]) > OutdatedDays}}

\* KnowledgeRetrieval.analyzeKnowledgeGaps
AnalyzeKnowledgeGapsRun(p) ==
    /\ At(p, "analyzeKnowledgeGaps", "run")
    /\ LET f == Top(p)
           st == Statement("analyzeKnowledgeGaps", f.params.analysisType, {})
           all == GapRows(nodes, edges, f.params)
       IN \/ /\ Inject
             /\ Return(p, Thrown("session"))
             /\ UNCHANGED <<openSessions, issued>>
          \/ /\ f.params.analysisType \notin GapTypes   \* analyzeGapsQuery throws
             /\ openSessions' = openSessions + 1
             /\ UNCHANGED <<failures, issued>>
             /\ Goto(p, Caught(f, "Unknown analysis type: " \o f.params.analysisType))
          \/ /\ f.params.analysisType \in GapTypes
             /\ Inject
             /\ Issue(st)
             /\ openSessions' = openSessions + 1
             /\ Goto(p, Caught(f, "query"))
          \/ /\ f.params.analysisType \in GapTypes
             /\ Issue(st)
             /\ openSessions' = openSessions + 1
             /\ UNCHANGED failures
             /\ \E rows \in AscendingBy(all, [r \in all |-> r.key]) :
                   LET results ==
                          [k \in 1..Min(Len(rows), MaxGapResults) |->
                              [x \in DOMAIN rows[k] \ {"key"} |-> rows[k][x]]]
                   IN Goto(p, [f EXCEPT
                         !.pc = "close",
                         !.result = [kind |-> "value", success |-> TRUE,
                                     domain |-> f.params.domain,
                                     analysisType |-> f.params.analysisType,
                                     threshold |-> f.params.threshold,
                                     results |-> results,
                                     count |-> Len(results)]])
    /\ UNCHANGED <<store, clock, calls, web, ghost>>

\* ------------------------------------------------ schemas/schema-setup.js
constraints == <<"knowledge_id", "concept_id", "concept_name", "fact_id",
                 "source_id", "person_id", "domain_id", "ai_processing_id">>
indexes == <<"knowledge_content", "knowledge_source", "knowledge_confidence",
             "concept_name_idx", "fact_statement", "source_type">>
domains == <<"Financial Planning", "Technology", "Business", "General">>

SchemaFrame ==
    [op |-> "setupSchema", pc |-> "constraints", i |-> 1, result |-> None]

\* MERGE (d:Domain {name: $name}) ON CREATE SET ...
RunSchemaDomainQuery(ns, name) ==
    IF Matching(ns, "Domain", "name", name) # {} THEN ns
    ELSE Append(ns, [NewNode(ns, {"Domain"}) EXCEPT !.name = name])

\* CREATE CONSTRAINT ... IF NOT EXISTS: a failure is logged, the loop goes on
SetupSchemaConstraint(p) ==
    /\ At(p, "setupSchema", "constraints")
    /\ LET f == Top(p)
           g == IF f.i < Len(constraints) THEN [f EXCEPT !.i = @ + 1]
                ELSE [f EXCEPT !.pc = "indexes", !.i = 1]
       IN \/ /\ f.i = 1
             /\ Inject                      \* driver.session() throws
             /\ Return(p, Thrown("session"))
             /\ UNCHANGED <<schema, openSessions>>
          \/ /\ Inject
             /\ openSessions' = IF f.i = 1 THEN openSessions + 1 ELSE openSessions
             /\ Goto(p, g)
             /\ UNCHANGED schema
          \/ /\ openSessions' = IF f.i = 1 THEN openSessions + 1 ELSE openSessions
             /\ schema' = schema \cup {constraints[f.i]}
             /\ Goto(p, g)
             /\ UNCHANGED failures
    /\ UNCHANGED <<nodes, edges, clock, calls, web, ghost, issued>>

\* CREATE INDEX ... IF NOT EXISTS: a failure is logged, the loop goes on
SetupSchemaIndex(p) ==
    /\ At(p, "setupSchema", "indexes")
    /\ LET f == Top(p)
           g == IF f.i < Len(indexes) THEN [f EXCEPT !.i = @ + 1]
                ELSE [f EXCEPT !.pc = "domains", !.i = 1]
       IN \/ /\ Inject
             /\ Goto(p, g)
             /\ UNCHANGED schema
          \/ /\ schema' = schema \cup {indexes[f.i]}
             /\ Goto(p, g)
             /\ UNCHANGED failures
    /\ UNCHANGED <<nodes, edges, clock, openSessions, calls, web, ghost, issued>>

\* the initial domains: a failure here ends the setup
SetupSchemaDomain(p) ==
    /\ At(p, "setupSchema", "domains")
    /\ LET f == Top(p) IN
          \/ /\ Inject
             /\ Goto(p, Caught(f, "query"))
             /\ UNCHANGED nodes
          \/ /\ nodes' = RunSchemaDomainQuery(nodes, domains[f.i])
             /\ Goto(p, IF f.i < Len(domains) THEN [f EXCEPT !.i = @ + 1]
                        ELSE [f EXCEPT !.pc = "close",
                                       !.result = [kind |-> "value", success |-> TRUE]])
             /\ UNCHANGED failures
    /\ UNCHANGED <<edges, schema, clock, openSessions, calls, web, ghost, issued>>

\* ------------------------------------------------------------- the callers
Idle(p) == stack[p] = <<>>

\* callers are anonymous: a new call runs in the first free slot
FreeSlot == CHOOSE p \in Procs : Idle(p) /\ \A q \in Procs : Idle(q) => SlotNo(p) <= SlotNo(q)

FrameOf(r) ==
    CASE r.op = "storeConcept" -> ConceptFrame(r.params)
      [] r.op = "storeFact" -> FactFrame(r.params)
      [] r.op = "storeSource" -> SourceFrame(r.params)
      [] r.op = "createRelationship" -> RelationshipFrame(r.params)
      [] r.op = "storeKnowledge" -> KnowledgeFrame(r.params)
      [] r.op = "processOutput" -> ExtractorFrame(r.params)
      [] r.op = "setupSchema" -> SchemaFrame
      [] OTHER -> RetrievalFrame(r.op, r.params)

\* a caller sends request r
Call(p, r) ==
    /\ Idle(p)
    /\ p = FreeSlot
    /\ calls < MaxCalls
    /\ calls' = calls + 1
    /\ stack' = [stack EXCEPT ![p] = <<FrameOf(r)>>]
    /\ outcome' = [outcome EXCEPT ![p] = [request |-> r, res |-> None]]
    /\ UNCHANGED <<store, clock, openSessions, failures, ghost, issued, web>>

\* a graph that earlier calls have left: the concepts Graph and Cypher of the
\* domain Technology, and two notes, the second related to the first
SeedGraph ==
    LET c1 == RunConceptQuery(<<>>, createConceptQuery(
                 [name |-> "Graph", description |-> "desc", source |-> "user",
                  confidence |-> 60]))
        d1 == RunDomainQuery(c1.nodes, EmptyBag, "Concept", c1.records[1].id,
                             "Technology")
        c2 == RunConceptQuery(d1.nodes, createConceptQuery(
                 [name |-> "Cypher", description |-> Undef, source |-> "user",
                  confidence |-> NoConf]))
        d2 == RunDomainQuery(c2.nodes, d1.edges, "Concept", c2.records[1].id,
                             "Technology")
        k1 == RunKnowledgeQuery(d2.nodes, "Note",
                 [content |-> "graph notes", source |-> "user",
                  confidence |-> DEFAULT_CONFIDENCE])
        k2 == RunKnowledgeQuery(k1.nodes, "Note",
                 [content |-> "more notes", source |-> "user",
                  confidence |-> DEFAULT_CONFIDENCE])
        r1 == RunRelationshipQuery(k2.nodes, d2.edges,
                 [sourceId |-> k2.records[1].nodeId,
                  targetId |-> k1.records[1].nodeId, type |-> "RELATES_TO"])
    IN [nodes |-> k2.nodes, edges |-> r1.edges,
        hist |-> ("Graph" :> [n |-> 1, max |-> 60])
                 @@ ("Cypher" :> [n |-> 1, max |-> DEFAULT_CONFIDENCE]),
        lastUpsert |-> [serial |-> 2, name |-> "Cypher", description |-> Undef,
                        confidence |-> NoConf]]

GraphId == UUID(1)
CypherId == UUID(3)
NoteId == UUID(4)
AbsentId == UUID(99)

\* the SSE server has accepted no connection: const transports = {}
InitWeb ==
    /\ transports = <<>>
    /\ connections = <<>>
    /\ reply = None

InitWith(ns, es, h, last) ==
    /\ nodes = ns
    /\ edges = es
    /\ schema = {}
    /\ clock = 0
    /\ openSessions = 0
    /\ stack = [p \in Procs |-> <<>>]
    /\ outcome = [p \in Procs |-> [request |-> None, res |-> None]]
    /\ calls = 0
    /\ failures = 0
    /\ hist = h
    /\ lastUpsert = last
    /\ relMerges = es
    /\ issued = {}
    /\ InitWeb

\* the empty graph
InitEmpty ==
    InitWith(<<>>, EmptyBag, <<>>,
             [serial |-> 0, name |-> Undef, description |-> Undef,
              confidence |-> NoConf])

InitSeeded ==
    InitWith(SeedGraph.nodes, SeedGraph.edges, SeedGraph.hist, SeedGraph.lastUpsert)

NoMetadata ==
    [confidence |-> NoConf, domain |-> Undef, factType |-> Undef, concepts |-> <<>>]

\* one request or two of every operation, on the seeded graph
Requests ==
    {[op |-> "storeConcept",
      params |-> [name |-> "Graph", description |-> "", source |-> "user",
                  confidence |-> 90, domain |-> "Technology",
                  relationships |-> <<[type |-> "RELATED_TO", targetId |-> CypherId]>>]],
     [op |-> "storeFact",
      params |-> [statement |-> "Graph uses Cypher", source |-> "user",
                  confidence |-> 60, factType |-> "general", domain |-> "Technology",
                  concepts |-> <<[kind |-> "string", value |-> "Cypher"],
                                 [kind |-> "object", id |-> GraphId,
                                  relationshipType |-> Undef]>>]],
     [op |-> "storeSource",
      params |-> [title |-> "Manual", url |-> "http://manual", sourceType |-> "web"]],
     [op |-> "createRelationship",
      params |-> [sourceId |-> GraphId, targetId |-> CypherId, type |-> "RELATED_TO"]],
     [op |-> "storeKnowledge",
      params |-> [content |-> "a note", contentType |-> "note", source |-> "user",
                  metadata |-> [NoMetadata EXCEPT !.domain = "Technology"],
                  relationships |-> <<[targetNode |-> NoteId,
                                       relationshipType |-> "RELATES_TO"]>>]],
     [op |-> "storeKnowledge",
      params |-> [content |-> "a note", contentType |-> Undef, source |-> "user",
                  metadata |-> NoMetadata, relationships |-> <<>>]],
     [op |-> "searchKnowledge",
      params |-> [query |-> "notes", searchType |-> "semantic", maxResults |-> 1,
                  contextFilters |-> NoFilters]],
     [op |-> "searchKnowledge",
      params |-> [query |-> Undef, searchType |-> "semantic", maxResults |-> 10,
                  contextFilters |-> NoFilters]],
     [op |-> "exploreKnowledgeGraph",
      params |-> [startConcept |-> "more notes", maxDepth |-> 2,
                  relationshipTypes |-> <<>>]],
     [op |-> "exploreKnowledgeGraph",
      params |-> [startConcept |-> "absent", maxDepth |-> 2,
                  relationshipTypes |-> <<>>]],
     [op |-> "findKnowledgePaths",
      params |-> [conceptA |-> "Graph", conceptB |-> "Cypher", maxPathLength |-> 2,
                  relationshipConstraints |-> <<>>]],
     [op |-> "analyzeKnowledgeGaps",
      params |-> [domain |-> "Technology", analysisType |-> "missing-connections",
                  threshold |-> 30]],
     [op |-> "analyzeKnowledgeGaps",
      params |-> [domain |-> "Technology", analysisType |-> "other",
                  threshold |-> 30]],
     [op |-> "processOutput",
      params |-> [mcpSource |-> "Grok", rawOutput |-> "Cypher"]],
     [op |-> "processOutput",
      params |-> [mcpSource |-> "Grok", rawOutput |-> Undef]],
     [op |-> "setupSchema", params |-> <<>>]}

\* the concept upserts of every operation that issues one, on the empty graph
UpsertRequests ==
    {[op |-> "storeConcept",
      params |-> [name |-> "Graph", description |-> d, source |-> "user",
                  confidence |-> c, domain |-> Undef, relationships |-> <<>>]] :
        d \in {"", "desc"}, c \in {0, 60, 90}}
    \cup
    {[op |-> "storeKnowledge",
      params |-> [content |-> "Graph", contentType |-> "Concept", source |-> "user",
                  metadata |-> NoMetadata, relationships |-> <<>>]],
     [op |-> "storeFact",
      params |-> [statement |-> "Graph has nodes", source |-> "user",
                  confidence |-> 100, factType |-> "general", domain |-> Undef,
                  concepts |-> <<[kind |-> "string", value |-> "Graph"]>>]],
     [op |-> "processOutput",
      params |-> [mcpSource |-> "Grok", rawOutput |-> "Graph"]]}

\* the relationship merges of every operation that issues one, on the seeded graph
RelRequests ==
    {[op |-> "createRelationship",
      params |-> [sourceId |-> a, targetId |-> b, type |-> "RELATED_TO"]] :
        a \in {GraphId}, b \in {CypherId, AbsentId}}
    \cup
    {[op |-> "storeConcept",
      params |-> [name |-> "Graph", description |-> Undef, source |-> "user",
                  confidence |-> NoConf, domain |-> "Technology",
                  relationships |-> <<[type |-> "RELATED_TO", targetId |-> CypherId]>>]],
     [op |-> "storeFact",
      params |-> [statement |-> "Graph uses Cypher", source |-> "user",
                  confidence |-> NoConf, factType |-> "general", domain |-> Undef,
                  concepts |-> <<[kind |-> "object", id |-> GraphId,
                                  relationshipType |-> Undef],
                                 [kind |-> "object", id |-> GraphId,
                                  relationshipType |-> "ABOUT"]>>]]}

\* extraction batches, on the empty graph
ExtractRequests ==
    {[op |-> "processOutput", params |-> [mcpSource |-> "Grok", rawOutput |-> t]] :
        t \in {"Graph Store supports Cypher.", "nothing to extract here", Undef}}

StorageStep(p) ==
    \/ StoreConceptMerge(p)
    \/ StoreConceptDomain(p)
    \/ StoreConceptRel(p)
    \/ StoreFactCreate(p)
    \/ StoreFactUpsert(p)
    \/ StoreFactLink(p)
    \/ StoreFactLinkObject(p)
    \/ StoreFactDomain(p)
    \/ StoreSourceMerge(p)
    \/ CreateRelationshipMerge(p)
    \/ StoreKnowledgeDispatch(p)
    \/ StoreKnowledgeCreate(p)
    \/ StoreKnowledgeRelReturn(p)
    \/ StoreKnowledgeDomain(p)
    \/ SessionClose(p)

RetrievalStep(p) ==
    \/ SearchKnowledgeRun(p)
    \/ ExploreKnowledgeGraphRun(p)
    \/ FindKnowledgePathsRun(p)
    \/ AnalyzeKnowledgeGapsRun(p)

SchemaStep(p) ==
    \/ SetupSchemaConstraint(p)
    \/ SetupSchemaIndex(p)
    \/ SetupSchemaDomain(p)

\* a processOutput that extracts one concept and no fact
ExtractorStepNoFact(p) ==
    \/ ProcessOutputStart(p)
    \/ ProcessOutputConceptReturn(p)
    \/ ProcessOutputSourceReturn(p)
    \/ ProcessOutputLinkReturn(p)

ExtractorStep(p) ==
    \/ ExtractorStepNoFact(p)
    \/ ProcessOutputFactReturn(p)

\* every operation
Next ==
    \/ \E p \in Procs, r \in Requests : Call(p, r)
    \/ \E p \in Procs : StorageStep(p)
    \/ \E p \in Procs : RetrievalStep(p)
    \/ \E p \in Procs : SchemaStep(p)
    \/ \E p \in Procs : ExtractorStepNoFact(p)

Spec == InitSeeded /\ [][Next]_vars

\* the operations that upsert a Concept
NextUpsert ==
    \/ \E p \in Procs, r \in UpsertRequests : Call(p, r)
    \/ \E p \in Procs :
          \/ StoreConceptMerge(p)
          \/ StoreKnowledgeDispatch(p)
          \/ StoreFactCreate(p)
          \/ StoreFactUpsert(p)
          \/ StoreFactLink(p)
          \/ StoreSourceMerge(p)
          \/ CreateRelationshipMerge(p)
          \/ SessionClose(p)
    \/ \E p \in Procs : ExtractorStepNoFact(p)

SpecUpsert == InitEmpty /\ [][NextUpsert]_vars

\* the operations that merge a relationship
NextRel ==
    \/ \E p \in Procs, r \in RelRequests : Call(p, r)
    \/ \E p \in Procs :
          \/ CreateRelationshipMerge(p)
          \/ StoreConceptMerge(p)
          \/ StoreConceptDomain(p)
          \/ StoreConceptRel(p)
          \/ StoreFactCreate(p)
          \/ StoreFactLinkObject(p)
          \/ SessionClose(p)

SpecRel == InitSeeded /\ [][NextRel]_vars

\* a graph that earlier calls have left for the retrieval: the seeded graph, the
\* first note now of the domain Technology, and two memos, the first from the
\* web, of low confidence and of the domain Technology, the second connected
\* to nothing
InitSearch ==
    \E g \in {SeedGraph} :
    \E d1 \in {RunDomainQuery(g.nodes, g.edges, "Knowledge", NoteId, "Technology")} :
    \E k3 \in {RunKnowledgeQuery(d1.nodes, "Memo",
                  [content |-> "web notes", source |-> "web", confidence |-> 40])} :
    \E d3 \in {RunDomainQuery(k3.nodes, d1.edges, "Knowledge",
                               k3.records[1].nodeId, "Technology")} :
    \E k4 \in {RunKnowledgeQuery(d3.nodes, "Memo",
                  [content |-> "Notes on Cypher", source |-> "user",
                   confidence |-> 90])} :
        InitWith(k4.nodes, d3.edges, g.hist, g.lastUpsert)

Search(query, searchType, maxResults, contextFilters) ==
    [op |-> "searchKnowledge",
     params |-> [query |-> query, searchType |-> searchType,
                 maxResults |-> maxResults, contextFilters |-> contextFilters]]

SearchRequests ==
    {Search("notes", "exact", 10, NoFilters),
     Search("notes", "exact", 2, NoFilters),
     Search("graph", "exact", 10, NoFilters),
     Search("NOTES", "exact", 10,
            [NoFilters EXCEPT !.domain = "Technology", !.source = "user"]),
     Search("notes", "semantic", 10,
            [NoFilters EXCEPT !.minConfidence = 50, !.contentType = OneType("memo")]),
     Search("notes", "hybrid", 10,
            [domain |-> "Technology", minConfidence |-> 50,
             contentType |-> OneType("note"), source |-> "user"]),
     Search("notes", "hybrid", 10,
            [NoFilters EXCEPT !.contentType = Types(<<"note", "memo">>)]),
     Search("notes", "exact", 10,
            [NoFilters EXCEPT !.contentType = Types(<<"note">>)]),
     Search("notes", "exact", 10,
            [NoFilters EXCEPT !.contentType = OneType("my note")]),
     Search("notes", "graph", 10, NoFilters),
     Search(Undef, "hybrid", 10, NoFilters)}

\* searches
NextSearch ==
    \/ \E p \in Procs, r \in SearchRequests : Call(p, r)
    \/ \E p \in Procs :
          \/ SearchKnowledgeRun(p)
          \/ SessionClose(p)

SpecSearch == InitSearch /\ [][NextSearch]_vars

\* a graph that earlier calls have left for the search of paths: the seeded
\* graph, and relationships of several types between its two concepts, in
\* both directions
SeededLinks == 10
LinkType(k) == "LINK_" \o ToString(k)

RECURSIVE WithLinks(_, _, _)
WithLinks(ns, es, k) ==
    IF k = 0 THEN es
    ELSE RunRelationshipQuery(ns, WithLinks(ns, es, k - 1),
            [sourceId |-> IF k % 2 = 1 THEN GraphId ELSE CypherId,
             targetId |-> IF k % 2 = 1 THEN CypherId ELSE GraphId,
             type |-> LinkType(k)]).edges

InitPaths ==
    InitWith(SeedGraph.nodes, WithLinks(SeedGraph.nodes, SeedGraph.edges, SeededLinks),
             SeedGraph.hist, SeedGraph.lastUpsert)

Paths(conceptA, conceptB, maxPathLength, relationshipConstraints) ==
    [op |-> "findKnowledgePaths",
     params |-> [conceptA |-> conceptA, conceptB |-> conceptB,
                 maxPathLength |-> maxPathLength,
                 relationshipConstraints |-> relationshipConstraints]]

Relate(sourceId, targetId, type) ==
    [op |-> "createRelationship",
     params |-> [sourceId |-> sourceId, targetId |-> targetId, type |-> type]]

PathRequests ==
    {Paths("Graph", "Cypher", 1, <<>>),
     Paths("Graph", "Cypher", 1, <<"RELATED_TO">>),
     Paths(GraphId, CypherId, 1, <<"RELATED_TO">>),
     Paths(GraphId, CypherId, 2, <<>>),
     Paths(CypherId, "Graph", 2, <<"BELONGS_TO", "LINK_1">>),
     Paths(GraphId, AbsentId, 2, <<>>),
     Paths(GraphId, CypherId, 2, <<"HAS PART">>),
     Relate(GraphId, CypherId, "RELATED_TO"),
     Relate(GraphId, CypherId, "HAS PART")}

\* the search of paths, and createRelationship
NextPaths ==
    \/ \E p \in Procs, r \in PathRequests : Call(p, r)
    \/ \E p \in Procs :
          \/ FindKnowledgePathsRun(p)
          \/ CreateRelationshipMerge(p)
          \/ SessionClose(p)

SpecPaths == InitPaths /\ [][NextPaths]_vars

Gaps(domain, analysisType, threshold) ==
    [op |-> "analyzeKnowledgeGaps",
     params |-> [domain |-> domain, analysisType |-> analysisType,
                 threshold |-> threshold]]

GapRequests ==
    {Gaps("Technology", "missing-connections", 10),
     Gaps("Technology", "missing-connections", 70),
     Gaps("Technology", "weak-areas", 70),
     Gaps("Technology", "outdated-content", 70),
     Gaps("Technology", "other", 70),
     Gaps("Cooking", "missing-connections", 10),
     Relate(GraphId, CypherId, "RELATED_TO")}

\* the analysis of gaps, and createRelationship
NextGaps ==
    \/ \E p \in Procs, r \in GapRequests : Call(p, r)
    \/ \E p \in Procs :
          \/ AnalyzeKnowledgeGapsRun(p)
          \/ CreateRelationshipMerge(p)
          \/ SessionClose(p)

SpecGaps == InitSeeded /\ [][NextGaps]_vars

StoreConcept(name, confidence, domain) ==
    [op |-> "storeConcept",
     params |-> [name |-> name, description |-> Undef, source |-> "user",
                 confidence |-> confidence, domain |-> domain,
                 relationships |-> <<>>]]

WeakRequests ==
    {Gaps("Technology", "weak-areas", 50),
     Gaps("Technology", "weak-areas", 70),
     StoreConcept("Index", 90, "Technology"),
     StoreConcept("Lucene", 30, "Technology")}

\* the analysis of weak areas of a domain whose two concepts have many
\* relationships, and storeConcept
NextWeak ==
    \/ \E p \in Procs, r \in WeakRequests : Call(p, r)
    \/ \E p \in Procs :
          \/ AnalyzeKnowledgeGapsRun(p)
          \/ StoreConceptMerge(p)
          \/ StoreConceptDomain(p)
          \/ SessionClose(p)

SpecWeak == InitPaths /\ [][NextWeak]_vars

Explore(startConcept, maxDepth, relationshipTypes) ==
    [op |-> "exploreKnowledgeGraph",
     params |-> [startConcept |-> startConcept, maxDepth |-> maxDepth,
                 relationshipTypes |-> relationshipTypes]]

ExploreRequests ==
    {Explore("more notes", 1, <<>>),
     Explore("more notes", 2, <<>>),
     Explore("more notes", 3, <<>>),
     Explore("notes", 2, <<>>),
     Explore(NoteId, 2, <<"RELATES_TO", "CITES">>),
     Explore("absent", 2, <<>>),
     Explore("Notes on Cypher", 2, <<>>),
     Explore("more notes", 2, <<"HAS PART">>),
     Explore(NoteId, 2, <<>>),
     Relate(UUID(6), NoteId, "CITES")}

\* the exploration, and createRelationship
NextExplore ==
    \/ \E p \in Procs, r \in ExploreRequests : Call(p, r)
    \/ \E p \in Procs :
          \/ ExploreKnowledgeGraphRun(p)
          \/ CreateRelationshipMerge(p)
          \/ SessionClose(p)

SpecExplore == InitSearch /\ [][NextExplore]_vars

\* the extraction, and the storage operations it calls
NextExtract ==
    \/ \E p \in Procs, r \in ExtractRequests : Call(p, r)
    \/ \E p \in Procs :
          \/ StoreConceptMerge(p)
          \/ StoreFactCreate(p)
          \/ StoreFactUpsert(p)
          \/ StoreFactLink(p)
          \/ StoreSourceMerge(p)
          \/ CreateRelationshipMerge(p)
          \/ SessionClose(p)
    \/ \E p \in Procs : ExtractorStep(p)

SpecExtract == InitEmpty /\ [][NextExtract]_vars

Knowledge(content, contentType, domain, relationships) ==
    [op |-> "storeKnowledge",
     params |-> [content |-> content, contentType |-> contentType, source |-> "user",
                 metadata |-> [NoMetadata EXCEPT !.domain = domain],
                 relationships |-> relationships]]

KnowledgeRequests ==
    {Knowledge("Index", "concept", Undef,
               <<[targetNode |-> GraphId, relationshipType |-> "RELATED_TO"]>>),
     Knowledge("Index uses Graph", "fact", Undef,
               <<[targetNode |-> GraphId, relationshipType |-> "ABOUT"]>>),
     Knowledge("a note", "note", "Technology",
               <<[targetNode |-> NoteId, relationshipType |-> "RELATES_TO"],
                 [targetNode |-> GraphId, relationshipType |-> "MENTIONS"]>>),
     Knowledge("a memo", "memo", Undef,
               <<[targetNode |-> AbsentId, relationshipType |-> "RELATES_TO"]>>),
     Knowledge("a memo", "memo", Undef, <<>>)}

\* storeKnowledge with relationships, for every kind of content
NextKnowledge ==
    \/ \E p \in Procs, r \in KnowledgeRequests : Call(p, r)
    \/ \E p \in Procs :
          \/ StoreKnowledgeDispatch(p)
          \/ StoreKnowledgeCreate(p)
          \/ StoreKnowledgeRelReturn(p)
          \/ StoreKnowledgeDomain(p)
          \/ CreateRelationshipMerge(p)
          \/ StoreConceptMerge(p)
          \/ StoreFactCreate(p)
          \/ SessionClose(p)

SpecKnowledge == InitSeeded /\ [][NextKnowledge]_vars

\* texts whose sentences have the lengths 20, 21, 199 and 200, a text of six
\* sentences with an indicator and a text of eleven capitalised terms
Sentence20 == "Graph is a fine tool"
Sentence21 == "Graph is a finer tool"
Sentence200 ==
    "Graph is a ab ab ab ab ab ab ab ab ab ab ab ab ab ab ab ab ab ab ab ab ab ab ab ab ab ab ab ab ab ab ab ab ab ab ab ab ab ab ab ab ab ab ab ab ab ab ab ab ab ab ab ab ab ab ab ab ab ab ab ab ab ab abc"
Sentence199 == SubSeq(Sentence200, 2, 200)
SixSentences ==
    "item a is a part of the kit. item b is a part of the kit. item c is a part of the kit. item d is a part of the kit. item e is a part of the kit. item f is a part of the kit"
ElevenTerms ==
    "Alfa, Beta, Gamma, Delta, Epsilon, Zeta, Theta, Iota, Kappa, Lambda, Omicron"

Separators == {". ", "! ", "?"}

SentenceTexts ==
    {a \o sep \o b : a \in {Sentence20, Sentence21},
                      b \in {Sentence199, Sentence200, "no"}, sep \in Separators}
    \cup {SixSentences, ElevenTerms, "nothing to extract here"}

\* a call of processOutput on one of the texts has started, on the empty graph
InitSentences ==
    \E t \in SentenceTexts :
       LET r == [op |-> "processOutput",
                 params |-> [mcpSource |-> "Grok", rawOutput |-> t]]
       IN /\ nodes = <<>>
          /\ edges = EmptyBag
          /\ schema = {}
          /\ clock = 0
          /\ openSessions = 0
          /\ stack = [p \in Procs |-> IF p = "p1" THEN <<FrameOf(r)>> ELSE <<>>]
          /\ outcome = [p \in Procs |->
                          [request |-> IF p = "p1" THEN r ELSE None, res |-> None]]
          /\ calls = 1
          /\ failures = 0
          /\ hist = <<>>
          /\ lastUpsert = [serial |-> 0, name |-> Undef, description |-> Undef,
                           confidence |-> NoConf]
          /\ relMerges = EmptyBag
          /\ issued = {}
          /\ InitWeb

\* the steps of that call
NextSentences ==
    \/ \E p \in Procs :
          \/ StoreConceptMerge(p)
          \/ StoreFactCreate(p)
          \/ StoreFactUpsert(p)
          \/ StoreFactLink(p)
          \/ StoreSourceMerge(p)
          \/ CreateRelationshipMerge(p)
          \/ SessionClose(p)
    \/ \E p \in Procs : ExtractorStep(p)

SpecSentences == InitSentences /\ [][NextSentences]_vars

\* ------------------------------------------------------- the SSE server
\* (inspector-compatible.js)
MaxConnections == 3    \* /events connections accepted in one behaviour

\* the sessionId of a request's query string; Undef when the query has none
Queries == {"s1", "s2", "constructor", Undef}

\* `transports` is a plain object: a key it does not own is looked up in
\* Object.prototype
ObjectPrototype == {"constructor", "toString", "valueOf", "hasOwnProperty"}
Inherited == [kind |-> "inherited"]
Transport(c) == [kind |-> "transport", connection |-> c]

\* transports[sessionId]
Lookup(sessionId) ==
    IF sessionId \in DOMAIN transports THEN Transport(transports[sessionId])
    ELSE IF sessionId \in ObjectPrototype THEN Inherited
    ELSE None

\* req.query.sessionId || randomUUID(), for the c-th connection
SessionIdOf(q, c) == IF q # Undef /\ q # "" THEN q ELSE UUID(c)

Connection(sessionId, pc) == [sessionId |-> sessionId, pc |-> pc, open |-> TRUE]

\* GET /events up to the await: the session id is taken, the headers and the
\* first event are written, the transport is created and registered, and
\* server.connect is started
EventsGet(q) ==
    /\ Len(connections) < MaxConnections
    /\ LET c == Len(connections) + 1
           sessionId == SessionIdOf(q, c)
       IN /\ connections' = Append(connections, Connection(sessionId, "connect"))
          /\ transports' = [k \in DOMAIN transports \cup {sessionId} |->
                              IF k = sessionId THEN c ELSE transports[k]]
    /\ UNCHANGED <<store, clock, openSessions, stack, outcome, calls, failures,
                   ghost, issued, reply>>

\* GET /events without a sessionId where `require` is not defined (the file is
\* an ES module): the handler throws before it writes or registers anything,
\* and the request stays open
EventsGetThrows ==
    /\ Len(connections) < MaxConnections
    /\ connections' = Append(connections, Connection(Undef, "thrown"))
    /\ UNCHANGED <<store, clock, openSessions, stack, outcome, calls, failures,
                   ghost, issued, transports, reply>>

\* server.connect(transport) resolves: the handler registers its 'close'
\* listener on the request
EventsConnected(c) ==
    /\ c <= Len(connections)
    /\ connections[c].pc = "connect"
    /\ connections' = [connections EXCEPT ![c].pc = "listening"]
    /\ UNCHANGED <<store, clock, openSessions, stack, outcome, calls, failures,
                   ghost, issued, transports, reply>>

\* server.connect(transport) rejects: the handler ends, no listener registered
EventsConnectFails(c) ==
    /\ c <= Len(connections)
    /\ connections[c].pc = "connect"
    /\ connections' = [connections EXCEPT ![c].pc = "thrown"]
    /\ UNCHANGED <<store, clock, openSessions, stack, outcome, calls, failures,
                   ghost, issued, transports, reply>>

\* the client of connection c disconnects: 'close' is emitted on the request,
\* and the listener, if registered, deletes transports[sessionId]
ClientClose(c) ==
    /\ c <= Len(connections)
    /\ connections[c].open
    /\ connections' = [connections EXCEPT ![c].open = FALSE]
    /\ transports' =
          IF connections[c].pc = "listening"
          THEN [k \in DOMAIN transports \ {connections[c].sessionId} |-> transports[k]]
          ELSE transports
    /\ UNCHANGED <<store, clock, openSessions, stack, outcome, calls, failures,
                   ghost, issued, reply>>

\* the answer to a post: status 0 stands for a post the transport was handed
\* and has answered itself
Reply(sessionId, transport, status) ==
    [sessionId |-> sessionId, transport |-> transport, status |-> status]

\* POST /message: 400 without a session id or a transport; otherwise the
\* request is handed to the transport, which answers it; a value inherited
\* from Object.prototype has no handlePostMessage, the TypeError is caught
MessagePost(q) ==
    /\ reply' =
          IF q = Undef \/ q = "" \/ Lookup(q) = None THEN Reply(q, None, 400)
          ELSE IF Lookup(q) = Inherited THEN Reply(q, None, 500)
          ELSE Reply(q, Lookup(q), 0)
    /\ UNCHANGED <<store, clock, openSessions, stack, outcome, calls, failures,
                   ghost, issued, transports, connections>>

\* POST /message where transport.handlePostMessage throws before answering
MessageFails(q) ==
    /\ q # Undef /\ q # ""
    /\ Lookup(q) \notin {None, Inherited}
    /\ reply' = Reply(q, Lookup(q), 500)
    /\ UNCHANGED <<store, clock, openSessions, stack, outcome, calls, failures,
                   ghost, issued, transports, connections>>

NextSse ==
    \/ \E q \in Queries : EventsGet(q)
    \/ EventsGetThrows
    \/ \E c \in 1..MaxConnections :
          \/ EventsConnected(c)
          \/ EventsConnectFails(c)
          \/ ClientClose(c)
    \/ \E q \in Queries \cup {""} :
          \/ MessagePost(q)
          \/ MessageFails(q)

SpecSse == InitEmpty /\ [][NextSse]_vars

\* ---------------------------------------------------------- the properties
AllIdle == \A p \in Procs : Idle(p)

\* the call of slot p is over and returned a value
Returned(p) == outcome[p].res.kind = "value"

\* the call of slot p was a processOutput that returned success:true
Extracted(p) ==
    /\ Returned(p)
    /\ outcome[p].request.op = "processOutput"
    /\ outcome[p].res.success

NodeOf(id) == nodes[CHOOSE i \in ById(nodes, id) : TRUE]

ConceptsNamed(name) == Matching(nodes, "Concept", "name", name)

CoreOperations ==
    {"storeKnowledge", "storeConcept", "storeFact", "storeSource",
     "createRelationship", "searchKnowledge", "exploreKnowledgeGraph",
     "findKnowledgePaths", "analyzeKnowledgeGaps", "processOutput"}

\* C1: no core operation ever throws to its caller: whatever the arguments and
\* whatever the store failure, the call ends with a returned value
NeverThrows ==
    \A p \in Procs :
        outcome[p].res.kind = "throw" => outcome[p].request.op \notin CoreOperations

\* the frame of an operation that has opened its session and not yet closed it
HoldsSession(f) ==
    /\ f.op # "processOutput"
    /\ f.pc \notin {"merge", "create", "run", "dispatch"}
    /\ ~(f.op = "setupSchema" /\ f.pc = "constraints" /\ f.i = 1)

SessionHolders ==
    UNION {{<<p, k>> : k \in {j \in 1..Len(stack[p]) : HoldsSession(stack[p][j])}} :
           p \in Procs}

\* C2: every session an operation opens is closed before the operation
\* returns: the open sessions are those of the operations still running, and
\* once every call is over no session is open
SessionsReleased ==
    /\ openSessions = Cardinality(SessionHolders)
    /\ AllIdle => openSessions = 0

\* two concurrent calls are over, one returned success and one returned a
\* failure after opening its session
SessionsReleasedWitness ==
    /\ AllIdle
    /\ openSessions = 0
    /\ \E p, q \in Procs :
          /\ Returned(p) /\ outcome[p].res.success
          /\ Returned(q) /\ ~outcome[q].res.success
          /\ outcome[q].request.op \in {"exploreKnowledgeGraph", "createRelationship",
                                        "setupSchema", "storeFact"}

\* C3: the graph holds exactly one Concept node for each name ever upserted,
\* whatever the sequence or interleaving of the upserts
ConceptNameUnique ==
    /\ \A n \in DOMAIN hist : Cardinality(ConceptsNamed(n)) = 1
    /\ \A i \in NodeIdx : HasLabel(nodes[i], "Concept") => nodes[i].name \in DOMAIN hist

\* two calls that ran at the same time have both upserted the name Graph
ConceptNameUniqueWitness ==
    /\ "Graph" \in DOMAIN hist
    /\ hist["Graph"].n >= 2
    /\ Cardinality(ConceptsNamed("Graph")) = 1
    /\ \A p \in Procs : Returned(p) /\ outcome[p].res.success

\* C4: the stored confidence of a Concept is the greatest of the confidences
\* its upserts asked for, 0 included
ConfidenceIsMax ==
    \A n \in DOMAIN hist :
        \A i \in ConceptsNamed(n) : nodes[i].confidence = hist[n].max

\* C5: an upsert with a non-empty description refreshes the description of the
\* Concept, and an upsert with the description "" leaves an existing non-empty
\* description as it was
DescriptionRefreshed ==
    [][lastUpsert'.serial # lastUpsert.serial =>
         \A i \in ConceptsNamed(lastUpsert'.name) :
            /\ lastUpsert'.description \notin {Undef, ""}
                  => nodes'[i].description = lastUpsert'.description
            /\ (lastUpsert'.description = "" /\ nodes[i].description \notin {Undef, ""})
                  => nodes'[i].description = nodes[i].description]_vars

\* C6: whatever the number of merges of a relationship (source, type, target),
\* the graph holds exactly one edge of that type from source to target, and a
\* createRelationship that returned success left that one edge
RelationshipIdempotent ==
    /\ \A e \in BagToSet(relMerges) : CopiesIn(e, edges) = 1
    /\ \A e \in BagToSet(edges) : CopiesIn(e, edges) = 1
    /\ \A p \in Procs :
          (Returned(p) /\ outcome[p].request.op = "createRelationship"
             /\ outcome[p].res.success)
          => CopiesIn(<<outcome[p].res.sourceId, outcome[p].res.relationship,
                        outcome[p].res.targetId>>, edges) = 1

\* two createRelationship calls of the same (source, type, target) returned
\* success, and the relationship was merged at least twice
RelationshipIdempotentWitness ==
    /\ \A p \in Procs :
          /\ Returned(p) /\ outcome[p].res.success
          /\ outcome[p].request.op = "createRelationship"
    /\ CopiesIn(<<GraphId, "RELATED_TO", CypherId>>, relMerges) >= 2
    /\ CopiesIn(<<GraphId, "RELATED_TO", CypherId>>, edges) = 1

\* C7: processOutput returns success:true only when every storage step it
\* issued succeeded
FailureSurfaced ==
    \A p \in Procs : Extracted(p) => outcome[p].res.stepsFailed = 0

\* C8: after a successful processOutput every stored fact has an ABOUT edge to
\* each extracted concept whose name appears in the fact's sentence
FactsAboutConcepts ==
    \A p \in Procs :
        Extracted(p) =>
           LET x == outcome[p].res.extractionResults IN
           \A k \in 1..Len(x.facts), c \in 1..Len(x.concepts) :
              Includes(NodeOf(x.facts[k].id).statement, x.concepts[c].name)
                 => BagIn(<<x.facts[k].id, "ABOUT", x.concepts[c].id>>, edges)

\* C9: when processOutput returns success:true, extractionResults.source is
\* the Source of the batch, every listed concept has a DERIVED_FROM edge to it
\* and every listed fact a CITED_FROM edge
LinkedToSource ==
    \A p \in Procs :
        Extracted(p) =>
           LET x == outcome[p].res.extractionResults IN
           /\ x.source # None
           /\ Matching(nodes, "Source", "id", x.source.id) # {}
           /\ \A c \in 1..Len(x.concepts) :
                 BagIn(<<x.concepts[c].id, "DERIVED_FROM", x.source.id>>, edges)
           /\ \A k \in 1..Len(x.facts) :
                 BagIn(<<x.facts[k].id, "CITED_FROM", x.source.id>>, edges)

\* C10: every processOutput that returns success:true has added exactly one
\* new Source node to the graph
OneSourcePerBatch ==
    \A p \in Procs : Extracted(p) => outcome[p].res.sourcesCreated = 1

\* the call of slot p was a searchKnowledge with a query, over: it returned a
\* value, and the store did not fail
Searched(p) ==
    /\ Returned(p)
    /\ outcome[p].request.op = "searchKnowledge"
    /\ outcome[p].request.params.query # Undef
    /\ outcome[p].res.success \/ outcome[p].res.error # "query"

\* the ids of the entities a search returned
ResultIds(res) == {res.results[k].id : k \in 1..Len(res.results)}

\* the entity n matches every context filter supplied
FiltersHold(i, cf) ==
    /\ ~Falsy(cf.domain) => InDomain(nodes, edges, i, cf.domain)
    /\ cf.minConfidence # NoConf => nodes[i].confidence >= cf.minConfidence
    /\ ~Falsy(cf.source) => nodes[i].source = cf.source
    /\ cf.contentType # NoType =>
          \E k \in 1..Len(cf.contentType.items) :
              HasLabel(nodes[i], Capitalize(cf.contentType.items[k]))

\* the entities that match the search predicate and every context filter
Wanted(params) ==
    {nodes[i].id : i \in {j \in KnowledgeNodes(nodes) :
        /\ \E v \in {nodes[j].content, nodes[j].name, nodes[j].statement} :
              Hit(v, params.query)
        /\ FiltersHold(j, params.contextFilters)}}

\* C11: the context filters compose conjunctively for every searchType: a
\* search returns exactly the entities that match the search predicate and
\* every supplied filter, up to maxResults
FiltersCompose ==
    \A p \in Procs :
        Searched(p) =>
           LET a == outcome[p].request.params
               res == outcome[p].res
           IN /\ res.success
              /\ ResultIds(res) \subseteq Wanted(a)
              /\ Cardinality(ResultIds(res)) = Min(Cardinality(Wanted(a)), a.maxResults)

\* C12: with searchType exact, the displayed text of every result contains the
\* query, whatever the case of the letters
ExactContainsQuery ==
    \A p \in Procs :
        (Searched(p) /\ outcome[p].request.params.searchType = "exact"
           /\ outcome[p].res.success) =>
           \A k \in 1..Len(outcome[p].res.results) :
              Includes(toLowerCase(outcome[p].res.results[k].content),
                       toLowerCase(outcome[p].request.params.query))

ExactContainsQueryWitness ==
    \E p \in Procs :
        /\ Searched(p) /\ outcome[p].request.params.searchType = "exact"
        /\ outcome[p].res.success
        /\ outcome[p].request.params.query = "NOTES"
        /\ Len(outcome[p].res.results) >= 1

\* the innermost frame of slot p after the step
TopAfter(p) == stack'[p][Len(stack'[p])]

\* slot p runs the statement of op and the store does not fail
Runs(p, op) ==
    /\ At(p, op, "run")
    /\ stack'[p] # stack[p] /\ stack'[p] # <<>>
    /\ failures' = failures

\* the ends of the paths asked are both resolved by name
ByName(params) == ~isUuid(params.conceptA) /\ ~isUuid(params.conceptB)

NamedConcepts(name) == {nodes[i].id : i \in ConceptsNamed(name)}

\* C13: findKnowledgePaths for two concepts resolved by name returns
\* success:true with found:false when no path joins them within maxPathLength
\* (or an end is not resolved), and once A-[:RELATED_TO]->B is stored a search
\* with maxPathLength 1 returns found:true with a path of length 1 whose
\* segment is (A, RELATED_TO, B)
PathsByName ==
    [][\A p \in Procs :
          (Runs(p, "findKnowledgePaths") /\ ByName(Top(p).params)) =>
             LET a == Top(p).params
                 res == TopAfter(p).result
                 types == {a.relationshipConstraints[k] :
                             k \in 1..Len(a.relationshipConstraints)}
                 joined == \E x \in NamedConcepts(a.conceptA) :
                              \E path \in PathsUpTo(Rels(edges), x, types,
                                                   a.maxPathLength) :
                                 path[Len(path)].to \in NamedConcepts(a.conceptB)
             IN /\ res.success
                /\ res.found <=> joined
                /\ \A x \in NamedConcepts(a.conceptA), y \in NamedConcepts(a.conceptB) :
                      (BagIn(<<x, "RELATED_TO", y>>, edges)
                         /\ (types = {} \/ "RELATED_TO" \in types))
                      => \E k \in 1..Len(res.paths) :
                            /\ res.paths[k].length = 1
                            /\ res.paths[k].segments =
                                  <<[source |-> x, relationship |-> "RELATED_TO",
                                     target |-> y]>>]_vars

\* the call of slot p was a findKnowledgePaths that found paths
PathsReturned(p) ==
    /\ Returned(p)
    /\ outcome[p].request.op = "findKnowledgePaths"
    /\ outcome[p].res.success
    /\ outcome[p].res.found

\* C14: findKnowledgePaths returns no path longer than maxPathLength and at
\* most 10 paths, in ascending order of length, and shortestPathLength is the
\* least of the lengths returned
PathsBounded ==
    \A p \in Procs :
        PathsReturned(p) =>
           LET paths == outcome[p].res.paths
               shortest == outcome[p].res.shortestPathLength
           IN /\ \A k \in 1..Len(paths) :
                    paths[k].length <= outcome[p].request.params.maxPathLength
              /\ Len(paths) <= 10
              /\ \A k \in 1..(Len(paths) - 1) : paths[k].length <= paths[k + 1].length
              /\ \A k \in 1..Len(paths) : shortest <= paths[k].length
              /\ \E k \in 1..Len(paths) : shortest = paths[k].length

\* one search was cut to 10 paths, another returned paths of lengths 1 and 2
PathsBoundedWitness ==
    \E p, q \in Procs :
        /\ PathsReturned(p) /\ Len(outcome[p].res.paths) = 10
        /\ outcome[p].request.params.relationshipConstraints = <<>>
        /\ PathsReturned(q) /\ Len(outcome[q].res.paths) = 2
        /\ outcome[q].res.paths[1].length = 1 /\ outcome[q].res.paths[2].length = 2

\* ^[A-Za-z_][A-Za-z0-9_]*$
IsIdentifier(t) ==
    /\ Len(t) >= 1
    /\ IsLetter(Ch(t, 1)) \/ Ch(t, 1) = "_"
    /\ \A i \in 2..Len(t) : IsWordChar(Ch(t, i))

\* C15: a relationship type or a label is written into the text of a statement
\* only if it is an identifier; otherwise the input is rejected and no
\* statement holding it is issued
TokensAreIdentifiers ==
    \A st \in issued : \A t \in st.tokens : IsIdentifier(t)

\* C16: a searchKnowledge call that carries no query returns a failure without
\* acquiring a session and without running any statement
MissingQueryRejected ==
    /\ \A st \in issued : st.op = "searchKnowledge" => st.arg # Undef
    /\ \A p \in Procs : \A k \in 1..Len(stack[p]) :
          (stack[p][k].op = "searchKnowledge" /\ stack[p][k].params.query = Undef)
             => ~HoldsSession(stack[p][k])
    /\ \A p \in Procs :
          (Returned(p) /\ outcome[p].request.op = "searchKnowledge"
             /\ outcome[p].request.params.query = Undef)
             => ~outcome[p].res.success

\* the call of slot p was an analyzeKnowledgeGaps that returned a value
Analysed(p) == Returned(p) /\ outcome[p].request.op = "analyzeKnowledgeGaps"

\* C17: analyzeKnowledgeGaps accepts only the analysis types
\* missing-connections, weak-areas and outdated-content: for any other type
\* it returns a failure value and issues no statement
OnlyKnownAnalyses ==
    LET known == {"missing-connections", "weak-areas", "outdated-content"} IN
    /\ \A st \in issued : st.op = "analyzeKnowledgeGaps" => st.arg \in known
    /\ \A p \in Procs :
          (Analysed(p) /\ outcome[p].request.params.analysisType \notin known)
             => ~outcome[p].res.success

OnlyKnownAnalysesWitness ==
    \E p \in Procs :
        /\ Analysed(p)
        /\ outcome[p].request.params.analysisType = "other"
        /\ outcome[p].res = Failure("Unknown analysis type: other")

\* C18: missing-connections reports each unordered pair of concepts of the
\* domain with no direct relationship and a similarity above the threshold
\* exactly once, never a pair joined by a direct relationship, at most 20
\* pairs, by descending similarity; with threshold 0.1 two unconnected
\* concepts of the same domain are reported
MissingConnectionsOnce ==
    [][\A p \in Procs :
          (Runs(p, "analyzeKnowledgeGaps")
             /\ Top(p).params.analysisType = "missing-connections") =>
             LET res == TopAfter(p).result
                 rows == res.results
                 members == {nodes[i].name :
                               i \in DomainConcepts(nodes, edges, Top(p).params.domain)}
                 named(n) == {nodes[i].id : i \in ConceptsNamed(n)}
                 apart(a, b) == \A x \in named(a), y \in named(b) :
                                   Unconnected(edges, x, y)
             IN /\ res.success
                /\ Len(rows) <= 20
                /\ \A k \in 1..(Len(rows) - 1) :
                      rows[k].similarity >= rows[k + 1].similarity
                /\ \A k \in 1..Len(rows) :
                      /\ rows[k].similarity > Top(p).params.threshold
                      /\ apart(rows[k].concept1, rows[k].concept2)
                /\ \A j, k \in 1..Len(rows) :
                      j # k => {rows[j].concept1, rows[j].concept2}
                                 # {rows[k].concept1, rows[k].concept2}
                /\ \A a, b \in members :
                      (a # b /\ apart(a, b) /\ Top(p).params.threshold = 10)
                         => \E k \in 1..Len(rows) :
                               {rows[k].concept1, rows[k].concept2} = {a, b}]_vars

\* the call of slot p was an exploreKnowledgeGraph that returned success
Explored(p) ==
    /\ Returned(p)
    /\ outcome[p].request.op = "exploreKnowledgeGraph"
    /\ outcome[p].res.success

\* C19: exploreKnowledgeGraph with maxDepth d reports no connected node at a
\* depth above d, nor below 1
DepthBounded ==
    \A p \in Procs :
        Explored(p) =>
           \A c \in outcome[p].res.connectedNodes :
              1 <= c.depth /\ c.depth <= outcome[p].request.params.maxDepth

\* an exploration reported a node at the very depth asked, 3, and another
\* one, of depth 2, left that node out
DepthBoundedWitness ==
    \E p, q \in Procs :
        /\ Explored(p) /\ outcome[p].request.params.maxDepth = 3
        /\ \E c \in outcome[p].res.connectedNodes : c.depth = 3
        /\ Explored(q) /\ outcome[q].request.params = Explore("more notes", 2, <<>>).params
        /\ \A c \in outcome[q].res.connectedNodes : c.depth = 1

\* C20: a successful searchKnowledge with maxResults N returns at most N
\* results, in descending order of relevance, and totalCount is the number of
\* results returned
ResultsRanked ==
    \A p \in Procs :
        (Returned(p) /\ outcome[p].request.op = "searchKnowledge"
           /\ outcome[p].res.success) =>
           LET results == outcome[p].res.results IN
           /\ Len(results) <= outcome[p].request.params.maxResults
           /\ \A k \in 1..(Len(results) - 1) :
                 results[k].relevance >= results[k + 1].relevance
           /\ outcome[p].res.totalCount = Len(results)

\* a search that matched four entities returned the two of highest relevance
ResultsRankedWitness ==
    \E p \in Procs :
        /\ Returned(p) /\ outcome[p].request = Search("notes", "exact", 2, NoFilters)
        /\ outcome[p].res.success
        /\ Len(outcome[p].res.results) = 2 /\ outcome[p].res.totalCount = 2
        /\ outcome[p].res.results[1].relevance > outcome[p].res.results[2].relevance

\* C21: weak-areas never reports a concept with connectionCount >= 3 and
\* confidence >= threshold, connectionCount being the out-degree plus the
\* in-degree of the concept; every row has the reason weak_connections, at
\* most 20 rows are reported, ascending by connectionCount, then confidence
WeakAreasSound ==
    [][\A p \in Procs :
          (Runs(p, "analyzeKnowledgeGaps")
             /\ Top(p).params.analysisType = "weak-areas"
             /\ TopAfter(p).result.success) =>
             LET rows == TopAfter(p).result.results
                 degree(i) == OutDegree(edges, nodes[i].id)
                              + InDegree(edges, nodes[i].id)
             IN /\ Len(rows) <= 20
                /\ \A k \in 1..Len(rows) :
                      /\ rows[k].reason = "weak_connections"
                      /\ ~(/\ rows[k].connectionCount >= 3
                           /\ rows[k].confidence # NoConf
                           /\ rows[k].confidence >= Top(p).params.threshold)
                      /\ \E i \in DomainConcepts(nodes, edges, Top(p).params.domain) :
                            /\ nodes[i].name = rows[k].concept
                            /\ nodes[i].confidence = rows[k].confidence
                            /\ degree(i) = rows[k].connectionCount
                /\ \A j, k \in 1..Len(rows) :
                      j < k =>
                        \/ rows[j].connectionCount < rows[k].connectionCount
                        \/ /\ rows[j].connectionCount = rows[k].connectionCount
                           /\ \/ NoConf \in {rows[j].confidence, rows[k].confidence}
                              \/ rows[j].confidence <= rows[k].confidence]_vars

\* an analysis with threshold 0.5 has left out the concept Graph, of
\* confidence 0.6 and of more than three relationships, and has reported
\* the concept Index, of one relationship
WeakAreasSoundWitness ==
    \E p \in Procs :
        /\ Analysed(p)
        /\ outcome[p].request.params = Gaps("Technology", "weak-areas", 50).params
        /\ outcome[p].res.success
        /\ Len(outcome[p].res.results) = 1
        /\ outcome[p].res.results[1].concept = "Index"
        /\ outcome[p].res.results[1].connectionCount = 1
        /\ \E i \in ConceptsNamed("Graph") :
              /\ nodes[i].confidence = 60
              /\ OutDegree(edges, nodes[i].id) + InDegree(edges, nodes[i].id) >= 3

\* the relationship types asked of an exploration
ExploreTypes(params) ==
    {params.relationshipTypes[k] : k \in 1..Len(params.relationshipTypes)}

\* C22: exploreKnowledgeGraph returns the not-found failure only when no
\* entity matches the start asked; when a start entity exists and has no
\* connected entity within maxDepth, it returns success with that start node
\* and an empty connectedNodes
NotFoundOnlyWithoutStart ==
    [][\A p \in Procs :
          (Runs(p, "exploreKnowledgeGraph")
             /\ \A t \in ExploreTypes(Top(p).params) : SymbolicName(t)) =>
             LET a == Top(p).params
                 res == TopAfter(p).result
                 starts == StartNodes(nodes, a.startConcept)
             IN /\ starts = {} <=> ~res.success
                /\ ~res.success =>
                      res.error = "No concept found matching: " \o a.startConcept
                /\ (/\ starts # {}
                    /\ \A i \in starts :
                          Connections(nodes, edges, i, ExploreTypes(a), a.maxDepth) = {})
                      => /\ res.success
                         /\ res.startNode \in {nodes[i].id : i \in starts}
                         /\ res.connectedNodes = {}]_vars

\* the relationship types of a path, in order
PathTypes(path) == [k \in 1..Len(path) |-> path[k].rel[2]]

\* C23: for a found start entity, connectedNodes holds each entity reachable
\* within maxDepth exactly once, with the depth of a shortest path to it and
\* the relationship types of a shortest path as relationships
ShortestOnce ==
    [][\A p \in Procs :
          (Runs(p, "exploreKnowledgeGraph") /\ TopAfter(p).result.success) =>
             LET a == Top(p).params
                 res == TopAfter(p).result
                 paths == {x \in PathsUpTo(Rels(edges), res.startNode,
                                           ExploreTypes(a), a.maxDepth) :
                             \E j \in KnowledgeNodes(nodes) :
                                nodes[j].id = x[Len(x)].to}
                 reached == {x[Len(x)].to : x \in paths} \ {res.startNode}
                 entries(id) == {c \in res.connectedNodes : c.id = id}
                 shortest(id) ==
                    {x \in paths :
                       /\ x[Len(x)].to = id
                       /\ \A y \in paths : y[Len(y)].to = id => Len(x) <= Len(y)}
             IN \A id \in reached :
                   /\ Cardinality(entries(id)) = 1
                   /\ \A c \in entries(id) :
                            \E x \in shortest(id) :
                               /\ c.depth = Len(x)
                               /\ c.relationships = PathTypes(x)]_vars

\* C24: graph search uses the match of exact search: for the same query,
\* filters and graph, and maxResults that does not cut the results, it returns
\* the entities exact search returns, an entity with no neighbour within two
\* hops included, each with the entities within two hops of it attached
GraphMatchesAsExact ==
    [][\A p \in Procs :
          (Runs(p, "searchKnowledge")
             /\ Top(p).params.query # Undef
             /\ Top(p).params.searchType = "graph") =>
             LET a == Top(p).params
                 res == TopAfter(p).result
                 exact == SearchMatches(nodes, edges, [a EXCEPT !.searchType = "exact"])
             IN /\ res.success
                /\ Cardinality(exact) <= a.maxResults =>
                      /\ ResultIds(res) = {nodes[i].id : i \in exact}
                      /\ \A k \in 1..Len(res.results) :
                            \A i \in exact :
                               nodes[i].id = res.results[k].id =>
                                  res.results[k].relatedConcepts
                                     = {nodes[j].id : j \in Connected(nodes, edges, i, 2)}]_vars

\* the frames of the calls under way
Extracting ==
    UNION {{stack[p][k] : k \in 1..Len(stack[p])} : p \in Procs}

\* the sentences of 20 to 200 characters, bounds included, that hold an
\* indicator phrase: the first five
SentencesWithin(rawOutput) ==
    LET pieces == Split(rawOutput)
        trimmed == [k \in 1..Len(pieces) |-> Trim(pieces[k])]
        kept == SelectSeq(trimmed,
                   LAMBDA t : /\ 20 <= Len(t) /\ Len(t) <= 200
                              /\ \E ind \in factIndicators :
                                    Includes(toLowerCase(t), ind))
    IN SubSeq(kept, 1, Min(Len(kept), 5))

\* C25: the fact candidates are the sentences (split on '.', '!', '?',
\* trimmed) of 20 to 200 characters, bounds included, that hold an indicator
\* phrase, at most the first 5 in order; the concept candidates are at most 10
SentenceBounds ==
    \A f \in Extracting :
        (f.op = "processOutput" /\ f.pc # "start") =>
           /\ f.potentialFacts = SentencesWithin(f.params.rawOutput)
           /\ Len(f.uniqueConcepts) <= 10

\* the store operations of several steps
MultiStep == {"storeConcept", "storeFact", "storeKnowledge"}

\* slot p takes a step of a store operation that has created its node, and the
\* step fails: the store rejects its statement, or the createRelationship it
\* awaited has returned a failure
LaterStepFails(p) ==
    /\ stack[p] # <<>>
    /\ stack'[p] # stack[p]
    /\ Top(p).op \in MultiStep
    /\ Top(p).pc # "close"
    /\ Top(p).id # Undef
    /\ \/ failures' = failures + 1
       \/ /\ Top(p).op = "storeKnowledge"
          /\ Top(p).pc = "relReturn"
          /\ Top(p).ret # None
          /\ Top(p).ret.kind = "throw" \/ ~Top(p).ret.success

\* C26: when a later step of storeConcept, storeFact or storeKnowledge fails
\* after the node was created, the operation returns success:false, issues
\* no further step, and the node and edges created so far remain
PartialWriteSurfaced ==
    [][\A p \in Procs :
          LaterStepFails(p) =>
             /\ Len(stack'[p]) = Len(stack[p])
             /\ TopAfter(p).pc = "close"
             /\ ~TopAfter(p).result.success
             /\ nodes' = nodes /\ edges' = edges
             /\ ById(nodes, Top(p).id) # {}]_vars

\* C27: every segment (source, relationship, target) of every path returned
\* by findKnowledgePaths is a stored relationship of that type from source to
\* target, a path has as many segments as its length, and the target of a
\* segment is the source of the next
SegmentsAreEdges ==
    [][\A p \in Procs :
          (Runs(p, "findKnowledgePaths")
             /\ TopAfter(p).result.success /\ TopAfter(p).result.found) =>
             LET paths == TopAfter(p).result.paths IN
             \A k \in 1..Len(paths) :
                LET segments == paths[k].segments IN
                /\ Len(segments) = paths[k].length
                /\ \A i \in 1..(Len(segments) - 1) :
                      segments[i].target = segments[i + 1].source
                /\ \A i \in 1..Len(segments) :
                      BagIn(<<segments[i].source, segments[i].relationship,
                              segments[i].target>>, edges)]_vars

\* C28: a storeKnowledge that carries relationships and returns success has
\* created, for each of them, a relationship of relationshipType from the new
\* node to targetNode, whatever the contentType; the count of relationships
\* reported to the caller is the number of relationships created
RelationshipsStored ==
    \A p \in Procs :
        (/\ Returned(p)
         /\ outcome[p].request.op = "storeKnowledge"
         /\ outcome[p].res.success
         /\ Len(outcome[p].request.params.relationships) > 0) =>
           LET a == outcome[p].request.params
               created == {k \in 1..Len(a.relationships) :
                             BagIn(<<outcome[p].res.id,
                                     a.relationships[k].relationshipType,
                                     a.relationships[k].targetNode>>, edges)}
           IN /\ created = 1..Len(a.relationships)
              /\ RelationshipsReported(a) = Cardinality(created)

\* C29: processOutput creates Concept nodes only for its concept candidates:
\* once the extractions on an empty graph are over, every Concept node has the
\* name of a candidate listed in extractionResults.concepts
ConceptsFromCandidates ==
    (\A p \in Procs : Idle(p) /\ (outcome[p].request = None \/ Extracted(p))) =>
       \A i \in NodeIdx :
          HasLabel(nodes[i], "Concept") =>
             \E p \in Procs :
                /\ Extracted(p)
                /\ \E k \in 1..Len(outcome[p].res.extractionResults.concepts) :
                      outcome[p].res.extractionResults.concepts[k].name = nodes[i].name

\* C30: in the SSE server a session id has a registered transport exactly
\* while some /events connection for that id is open; a /message post for an id
\* with an open connection is handed to the transport of such a connection and
\* a post for an id with no open connection is answered 400; the disconnect of
\* one connection leaves the transport of every other open connection registered
OpenFor(sessionId) ==
    {c \in 1..Len(connections) :
        connections[c].open /\ connections[c].sessionId = sessionId}

SessionIds ==
    (Queries \cup {connections[c].sessionId : c \in 1..Len(connections)}) \ {Undef}

TransportWhileOpen ==
    \A sessionId \in SessionIds :
       sessionId \in DOMAIN transports <=> OpenFor(sessionId) # {}

PostRouted ==
    reply' # reply =>
       IF reply'.sessionId \in SessionIds /\ OpenFor(reply'.sessionId) # {}
       THEN reply'.transport \in {Transport(c) : c \in OpenFor(reply'.sessionId)}
       ELSE reply'.status = 400

DisconnectKeepsOthers ==
    \A c \in 1..Len(connections) :
       (connections[c].open /\ ~connections'[c].open) =>
          \A sessionId \in DOMAIN transports :
             (transports[sessionId] # c /\ connections[transports[sessionId]].open) =>
                /\ sessionId \in DOMAIN transports'
                /\ transports'[sessionId] = transports[sessionId]

TransportsFollowConnections ==
    [][TransportWhileOpen' /\ PostRouted /\ DisconnectKeepsOthers]_vars

====
